---- MODULE Spec2Model ----
(***************************************************************************)
(* The guided session engines of xvat: GuidedSession (workout) and         *)
(* GuidedWarmup (warm-up).  Each holds a SessionState that is advanced by  *)
(* a one-second interval and by the pause / skip / finish handlers, and    *)
(* calls onSessionComplete when the session ends.                          *)
(*                                                                         *)
(* kind selects the component a behaviour runs; both components are        *)
(* modelled from their own source.  State updaters are applied one at a    *)
(* time, in the order they were queued, each exactly once.                 *)
(*                                                                         *)
(* The session engine of seshEngine is modelled beside them: generate,     *)
(* which looks a filter up in the catalog, and generateWarmups, which      *)
(* picks warm-ups from the pool within a time budget.  SpecLookup and      *)
(* SpecSelect run them on catalogs, pools and filters drawn from bounded   *)
(* sets.                                                                   *)
(***************************************************************************)
EXTENDS Integers, Sequences, FiniteSets, TLC

\* ---- bounds of the model ----
MaxLen == 2
MaxReps == 2
MaxSets == 2
MaxDur == 1
MaxPrep == 2
MaxPool == 2

VARIABLES
    kind,             \* "session" (GuidedSession.tsx) or "warmup" (GuidedWarmup.tsx)
    exercises,        \* the exercises / warmups prop
    initialPrepTime,  \* the initialPrepTime prop
    sessionState,     \* the SessionState held by useState
    timerId,          \* TRUE while an interval installed by the timer effect is live
    completeCalls,    \* number of calls of onSessionComplete so far
    op,               \* the last step taken
    visited,          \* the phases entered so far while only the clock has driven the
                      \* session; <<>> once a handler was called
    xvatData,         \* xvat.json: the catalog nested by protocol, intensity, duration
    workouts,         \* workouts.json: the catalog as a flat list of Workout records
    warmupsJson,      \* warmups.json: the pool of warm-ups
    filter,           \* the Filter passed to generate / generateWarmups
    generated,        \* what the last call of generate did: returned or threw
    selectedWarmups,  \* what the last call of generateWarmups returned, as indices
                      \* into the pool
    restAudioPaused,  \* restAudioRef.current.paused: FALSE while the looping rest
                      \* cue plays
    mounted,          \* TRUE while the guided component is mounted
    liveIntervals,    \* number of intervals set by setInterval and not cleared
    page,             \* the state of Page: session, warmups, warmupComplete,
                      \* showExerciseList
    flow              \* what happened on the page so far: the START presses and the
                      \* guided runs they led to

engineVars == <<xvatData, workouts, warmupsJson, filter, generated, selectedWarmups>>

pageVars == <<page, flow>>

vars == <<kind, exercises, initialPrepTime, sessionState, timerId, completeCalls, op, visited,
          engineVars, restAudioPaused, mounted, liveIntervals, pageVars>>

\* No catalog is loaded and nothing was generated: the state of the engine in
\* the behaviours of the guided components.
EngineIdle ==
    /\ xvatData = <<>>
    /\ workouts = <<>>
    /\ warmupsJson = <<>>
    /\ filter = <<>>
    /\ generated = <<>>
    /\ selectedWarmups = <<>>

\* No page is rendered: the state of Page in the behaviours of a guided
\* component or of the engine on its own.
PageIdle ==
    /\ page = <<>>
    /\ flow = <<>>

\* ---- the rest cue ----
\* isRestPhase of the audio control effect.
isRestPhase(state) ==
    IF kind = "session" THEN state.currentPhase \in {"REST_HANG", "REST_SET"}
    ELSE state.currentPhase \in {"REST_REP", "REST_SET"}

\* The audio control effect playing the rest cue in a rest phase whether the
\* session is paused or not.
audioControlEffect_IgnoresPause(state, restPaused) ==
    IF isRestPhase(state)
    THEN IF restPaused THEN FALSE ELSE restPaused
    ELSE IF ~restPaused THEN TRUE ELSE restPaused

\* The audio control effect, for the rest cue: the value of restAudio.paused it
\* leaves, given the state rendered and the value it finds. Both audio
\* elements were constructed by the effect declared before it, and play()
\* starts the cue.
audioControlEffect(state, restPaused) ==
    IF state.isPaused
    THEN IF ~restPaused THEN TRUE ELSE restPaused
    ELSE IF isRestPhase(state)
         THEN IF restPaused THEN FALSE ELSE restPaused
         ELSE IF ~restPaused THEN TRUE ELSE restPaused

\* The dependencies of the audio control effect.
audioDeps(state) == <<state.currentPhase, state.phaseTimeLeft, state.isPaused>>

\* What a step of a guided component does to the rest cue: the handler stops
\* it if it calls restAudioRef.current?.pause(), and the audio control effect
\* runs after the render if one of its dependencies changed.
RestAudio(handlerPauses) ==
    LET afterHandler == IF handlerPauses THEN TRUE ELSE restAudioPaused
    IN restAudioPaused' = IF audioDeps(sessionState') # audioDeps(sessionState)
                          THEN audioControlEffect(sessionState', afterHandler)
                          ELSE afterHandler

\* The updater of a skip handler went past its check of isPaused and
\* FINISHED, where it stops the sounds.
passedGuard == ~(sessionState.isPaused \/ sessionState.currentPhase = "FINISHED")

\* The phase names of the specification: HANG is WORK, REST_HANG is REST_REP.
PhaseName(p) ==
    CASE p = "HANG" -> "WORK"
      [] p = "REST_HANG" -> "REST_REP"
      [] OTHER -> p

\* visited after a clock step from state prev to state next.
Visit(prev, next) ==
    IF visited = <<>> \/ next.currentPhase = prev.currentPhase
    THEN visited
    ELSE Append(visited, PhaseName(next.currentPhase))

Max(a, b) == IF a > b THEN a ELSE b

\* JavaScript array indexing (0-based): list[i] is undefined when i is out of range.
IsDefined(list, i) == i >= 0 /\ i < Len(list)

At(list, i) == list[i + 1]

\* ---- input domains ----
Exercise ==
    [HangDuration_s : 0..MaxDur, RestBetweenHangs_s : 0..MaxDur,
     Reps : 0..MaxReps, Sets : 0..MaxSets, RestBetweenSets_min : 0..MaxDur]

Warmup ==
    [Duration_s : 0..MaxDur, Rest_s : 0..MaxDur,
     Reps : 0..MaxReps, Sets : 0..MaxSets, RestBetweenSets_s : 0..MaxDur]

SeqUpTo(S, n) == UNION {[1..k -> S] : k \in 0..n}

\* ---- GuidedSession.tsx ----
\* The validity filter without its test of the hang duration.
ExerciseIsValid_AnyDuration(ex) == ex.Sets > 0 /\ ex.Reps > 0

ExerciseIsValid(ex) == ex.Sets > 0 /\ ex.Reps > 0 /\ ex.HangDuration_s > 0

RECURSIVE SumDuration(_, _, _)
SumDuration(exs, prep, index) ==
    IF index > Len(exs) THEN 0
    ELSE LET ex == exs[index]
             timePerSet == ex.Reps * ex.HangDuration_s
                           + Max(0, ex.Reps - 1) * ex.RestBetweenHangs_s
             own == IF ExerciseIsValid(ex)
                    THEN ex.Sets * timePerSet
                         + (IF ex.Sets > 1 THEN (ex.Sets - 1) * ex.RestBetweenSets_min ELSE 0)
                         + (IF index - 1 < Len(exs) - 1 /\ prep > 0 THEN prep ELSE 0)
                    ELSE 0
         IN own + SumDuration(exs, prep, index + 1)

\* calculateTotalDuration starting from 0 instead of the first prep time.
calculateTotalDuration_NoFirstPrep(exs, prep) ==
    IF Len(exs) = 0 THEN 0
    ELSE SumDuration(exs, prep, 1)

calculateTotalDuration(exs, prep) ==
    IF Len(exs) = 0 THEN 0
    ELSE (IF prep > 0 THEN prep ELSE 0) + SumDuration(exs, prep, 1)

\* calculateNextState starting the reps over without counting the set.
calculateNextState_RestartsSet(currentState, valid, prep) ==
    LET exercise == At(valid, currentState.currentExerciseIndex)
        core(ph, t, i, s, r) ==
            [currentExerciseIndex |-> i, currentSet |-> s, currentRep |-> r,
             currentPhase |-> ph, phaseTimeLeft |-> t]
        i0 == currentState.currentExerciseIndex
        s0 == currentState.currentSet
        r0 == currentState.currentRep
    IN IF ~IsDefined(valid, i0) THEN core("FINISHED", 0, i0, s0, r0)
       ELSE CASE currentState.currentPhase = "HANG" ->
                    IF r0 < exercise.Reps
                    THEN core("REST_HANG", exercise.RestBetweenHangs_s, i0, s0, r0 + 1)
                    ELSE IF s0 < exercise.Sets
                    THEN core("REST_SET", exercise.RestBetweenSets_min, i0, s0, 1)
                    ELSE IF i0 < Len(valid) - 1
                    THEN core("PREP", prep, i0 + 1, 1, 1)
                    ELSE core("FINISHED", 0, i0, s0, r0)
              [] currentState.currentPhase = "FINISHED" ->
                    core("FINISHED", 0, i0, s0, r0)
              [] OTHER -> core("HANG", exercise.HangDuration_s, i0, s0, r0)

\* calculateNextState entering REST_SET without starting the reps over.
calculateNextState_KeepsRep(currentState, valid, prep) ==
    LET exercise == At(valid, currentState.currentExerciseIndex)
        core(ph, t, i, s, r) ==
            [currentExerciseIndex |-> i, currentSet |-> s, currentRep |-> r,
             currentPhase |-> ph, phaseTimeLeft |-> t]
        i0 == currentState.currentExerciseIndex
        s0 == currentState.currentSet
        r0 == currentState.currentRep
    IN IF ~IsDefined(valid, i0) THEN core("FINISHED", 0, i0, s0, r0)
       ELSE CASE currentState.currentPhase = "HANG" ->
                    IF r0 < exercise.Reps
                    THEN core("REST_HANG", exercise.RestBetweenHangs_s, i0, s0, r0 + 1)
                    ELSE IF s0 < exercise.Sets
                    THEN core("REST_SET", exercise.RestBetweenSets_min, i0, s0 + 1, r0)
                    ELSE IF i0 < Len(valid) - 1
                    THEN core("PREP", prep, i0 + 1, 1, 1)
                    ELSE core("FINISHED", 0, i0, s0, r0)
              [] currentState.currentPhase = "FINISHED" ->
                    core("FINISHED", 0, i0, s0, r0)
              [] OTHER -> core("HANG", exercise.HangDuration_s, i0, s0, r0)

\* calculateNextState asking for more sets before more reps.
calculateNextState_SetsFirst(currentState, valid, prep) ==
    LET exercise == At(valid, currentState.currentExerciseIndex)
        core(ph, t, i, s, r) ==
            [currentExerciseIndex |-> i, currentSet |-> s, currentRep |-> r,
             currentPhase |-> ph, phaseTimeLeft |-> t]
        i0 == currentState.currentExerciseIndex
        s0 == currentState.currentSet
        r0 == currentState.currentRep
    IN IF ~IsDefined(valid, i0) THEN core("FINISHED", 0, i0, s0, r0)
       ELSE CASE currentState.currentPhase = "HANG" ->
                    IF s0 < exercise.Sets
                    THEN core("REST_SET", exercise.RestBetweenSets_min, i0, s0 + 1, 1)
                    ELSE IF r0 < exercise.Reps
                    THEN core("REST_HANG", exercise.RestBetweenHangs_s, i0, s0, r0 + 1)
                    ELSE IF i0 < Len(valid) - 1
                    THEN core("PREP", prep, i0 + 1, 1, 1)
                    ELSE core("FINISHED", 0, i0, s0, r0)
              [] currentState.currentPhase = "FINISHED" ->
                    core("FINISHED", 0, i0, s0, r0)
              [] OTHER -> core("HANG", exercise.HangDuration_s, i0, s0, r0)

\* calculateNextState counting the rep a second time on leaving REST_HANG.
calculateNextState_CountsRepTwice(currentState, valid, prep) ==
    LET exercise == At(valid, currentState.currentExerciseIndex)
        core(ph, t, i, s, r) ==
            [currentExerciseIndex |-> i, currentSet |-> s, currentRep |-> r,
             currentPhase |-> ph, phaseTimeLeft |-> t]
        i0 == currentState.currentExerciseIndex
        s0 == currentState.currentSet
        r0 == currentState.currentRep
    IN IF ~IsDefined(valid, i0) THEN core("FINISHED", 0, i0, s0, r0)
       ELSE CASE currentState.currentPhase = "HANG" ->
                    IF r0 < exercise.Reps
                    THEN core("REST_HANG", exercise.RestBetweenHangs_s, i0, s0, r0 + 1)
                    ELSE IF s0 < exercise.Sets
                    THEN core("REST_SET", exercise.RestBetweenSets_min, i0, s0 + 1, 1)
                    ELSE IF i0 < Len(valid) - 1
                    THEN core("PREP", prep, i0 + 1, 1, 1)
                    ELSE core("FINISHED", 0, i0, s0, r0)
              [] currentState.currentPhase = "REST_HANG" ->
                    core("HANG", exercise.HangDuration_s, i0, s0, r0 + 1)
              [] currentState.currentPhase = "FINISHED" ->
                    core("FINISHED", 0, i0, s0, r0)
              [] OTHER -> core("HANG", exercise.HangDuration_s, i0, s0, r0)

calculateNextState(currentState, valid, prep) ==
    LET hasExercise == IsDefined(valid, currentState.currentExerciseIndex)
        exercise == At(valid, currentState.currentExerciseIndex)
        core(ph, t, i, s, r) ==
            [currentExerciseIndex |-> i, currentSet |-> s, currentRep |-> r,
             currentPhase |-> ph, phaseTimeLeft |-> t]
        i0 == currentState.currentExerciseIndex
        s0 == currentState.currentSet
        r0 == currentState.currentRep
    IN IF ~hasExercise THEN core("FINISHED", 0, i0, s0, r0)
       ELSE CASE currentState.currentPhase = "PREP" ->
                    core("HANG", exercise.HangDuration_s, i0, s0, r0)
              [] currentState.currentPhase = "HANG" ->
                    IF r0 < exercise.Reps
                    THEN core("REST_HANG", exercise.RestBetweenHangs_s, i0, s0, r0 + 1)
                    ELSE IF s0 < exercise.Sets
                    THEN core("REST_SET", exercise.RestBetweenSets_min, i0, s0 + 1, 1)
                    ELSE IF i0 < Len(valid) - 1
                    THEN core("PREP", prep, i0 + 1, 1, 1)
                    ELSE core("FINISHED", 0, i0, s0, r0)
              [] currentState.currentPhase = "REST_HANG" ->
                    core("HANG", exercise.HangDuration_s, i0, s0, r0)
              [] currentState.currentPhase = "REST_SET" ->
                    core("HANG", exercise.HangDuration_s, i0, s0, r0)
              [] currentState.currentPhase = "FINISHED" ->
                    core("FINISHED", 0, i0, s0, r0)

validExercises == SelectSeq(exercises, ExerciseIsValid)

\* totalSessionDuration estimated from the unfiltered exercises prop.
totalSessionDuration_Unfiltered == calculateTotalDuration(exercises, initialPrepTime)

totalSessionDuration == calculateTotalDuration(validExercises, initialPrepTime)

\* InitialSessionState starting in PREP whatever the list holds.
InitialSessionState_AlwaysPrep ==
    [currentExerciseIndex |-> 0, currentSet |-> 1, currentRep |-> 1,
     currentPhase |-> "PREP",
     phaseTimeLeft |-> initialPrepTime,
     totalTimeLeft |-> totalSessionDuration,
     isPaused |-> FALSE]

InitialSessionState ==
    [currentExerciseIndex |-> 0, currentSet |-> 1, currentRep |-> 1,
     currentPhase |-> IF Len(validExercises) > 0 THEN "PREP" ELSE "FINISHED",
     phaseTimeLeft |-> IF Len(validExercises) > 0 THEN initialPrepTime ELSE 0,
     totalTimeLeft |-> totalSessionDuration,
     isPaused |-> FALSE]

hasCurrentExercise == IsDefined(validExercises, sessionState.currentExerciseIndex)

\* {...prev, ...core}: the core's fields overwrite those of prev.
Spread(prev, core) == [f \in DOMAIN prev |-> IF f \in DOMAIN core THEN core[f] ELSE prev[f]]

InitSession ==
    /\ kind = "session"
    /\ exercises \in SeqUpTo(Exercise, MaxLen)
    /\ initialPrepTime \in 0..MaxPrep
    /\ sessionState = InitialSessionState
    /\ timerId = FALSE
    /\ completeCalls = 0
    /\ op = "init"
    /\ visited = <<PhaseName(sessionState.currentPhase)>>
    /\ EngineIdle
    /\ restAudioPaused = audioControlEffect(sessionState, TRUE)
    /\ mounted = TRUE
    /\ liveIntervals = 0
    /\ PageIdle

\* The timer effect without isPaused among its dependencies: it does not run
\* after togglePause.
SessionTimerEffect_NotOnPause ==
    /\ kind = "session"
    /\ mounted
    /\ op # "togglePause"
    /\ LET run == ~(sessionState.isPaused
                    \/ sessionState.currentPhase = "FINISHED"
                    \/ ~hasCurrentExercise)
       IN /\ timerId # run
          /\ timerId' = run
          /\ liveIntervals' = liveIntervals - (IF timerId THEN 1 ELSE 0)
                                            + (IF run THEN 1 ELSE 0)
    /\ op' = "effect"
    /\ UNCHANGED <<engineVars, pageVars, mounted, kind, exercises, initialPrepTime, sessionState, completeCalls, visited>>
    /\ RestAudio(FALSE)

\* The timer effect without its cleanup: the interval of the previous run is
\* left alone.
SessionTimerEffect_NoCleanup ==
    /\ kind = "session"
    /\ mounted
    /\ LET run == ~(sessionState.isPaused
                    \/ sessionState.currentPhase = "FINISHED"
                    \/ ~hasCurrentExercise)
       IN /\ timerId # run
          /\ timerId' = run
          /\ liveIntervals' = IF liveIntervals >= 2 THEN 2
                              ELSE liveIntervals + (IF run THEN 1 ELSE 0)
    /\ op' = "effect"
    /\ UNCHANGED <<engineVars, pageVars, mounted, kind, exercises, initialPrepTime, sessionState, completeCalls, visited>>
    /\ RestAudio(FALSE)

\* The timer effect: its cleanup clears the previous interval and its body
\* installs a new one unless the session is paused, finished or has no item.
SessionTimerEffect ==
    /\ kind = "session"
    /\ mounted
    /\ LET run == ~(sessionState.isPaused
                    \/ sessionState.currentPhase = "FINISHED"
                    \/ ~hasCurrentExercise)
       IN /\ timerId # run
          /\ timerId' = run
          /\ liveIntervals' = liveIntervals - (IF timerId THEN 1 ELSE 0)
                                            + (IF run THEN 1 ELSE 0)
    /\ op' = "effect"
    /\ UNCHANGED <<engineVars, pageVars, mounted, kind, exercises, initialPrepTime, sessionState, completeCalls, visited>>
    /\ RestAudio(FALSE)

\* SessionCountDown letting the total countdown fall below zero.
SessionCountDown_NoFloor ==
    LET prev == sessionState
        newPhaseTimeLeft == prev.phaseTimeLeft - 1
        newTotalTimeLeft == prev.totalTimeLeft - 1
    IN IF newPhaseTimeLeft > 0
       THEN /\ sessionState' = [prev EXCEPT !.phaseTimeLeft = newPhaseTimeLeft,
                                            !.totalTimeLeft = newTotalTimeLeft]
            /\ UNCHANGED <<timerId, completeCalls>>
       ELSE LET nextStateCore == calculateNextState(prev, validExercises, initialPrepTime)
                finished == nextStateCore.currentPhase = "FINISHED"
            IN /\ completeCalls' = IF finished /\ prev.currentPhase # "FINISHED"
                                   THEN completeCalls + 1 ELSE completeCalls
               /\ sessionState' =
                    [Spread(prev, nextStateCore) EXCEPT
                       !.totalTimeLeft = IF finished THEN 0 ELSE newTotalTimeLeft]
               /\ UNCHANGED timerId

\* The interval callback past its guard: count one second down and, when the
\* phase has run out, move to the next state.
SessionCountDown ==
    LET prev == sessionState
        newPhaseTimeLeft == prev.phaseTimeLeft - 1
        newTotalTimeLeft == Max(0, prev.totalTimeLeft - 1)
    IN IF newPhaseTimeLeft > 0
       THEN /\ sessionState' = [prev EXCEPT !.phaseTimeLeft = newPhaseTimeLeft,
                                            !.totalTimeLeft = newTotalTimeLeft]
            /\ UNCHANGED <<timerId, completeCalls>>
       ELSE LET nextStateCore == calculateNextState(prev, validExercises, initialPrepTime)
                finished == nextStateCore.currentPhase = "FINISHED"
            IN /\ completeCalls' = IF finished /\ prev.currentPhase # "FINISHED"
                                   THEN completeCalls + 1 ELSE completeCalls
               /\ sessionState' =
                    [Spread(prev, nextStateCore) EXCEPT
                       !.totalTimeLeft = IF finished THEN 0 ELSE newTotalTimeLeft]
               /\ UNCHANGED timerId

\* SessionTick without the guard against a paused or finished session.
SessionTick_Unguarded ==
    /\ kind = "session"
    /\ timerId
    /\ op' = "tick"
    /\ SessionCountDown
    /\ UNCHANGED liveIntervals
    /\ visited' = Visit(sessionState, sessionState')
    /\ UNCHANGED <<engineVars, pageVars, mounted, kind, exercises, initialPrepTime>>
    /\ RestAudio(FALSE)

\* The interval callback.
SessionTick ==
    /\ kind = "session"
    /\ timerId
    /\ op' = "tick"
    /\ IF sessionState.isPaused \/ sessionState.currentPhase = "FINISHED"
       THEN /\ timerId' = FALSE
            /\ liveIntervals' = liveIntervals - 1
            /\ UNCHANGED <<sessionState, completeCalls>>
       ELSE SessionCountDown /\ UNCHANGED liveIntervals
    /\ visited' = Visit(sessionState, sessionState')
    /\ UNCHANGED <<engineVars, pageVars, mounted, kind, exercises, initialPrepTime>>
    /\ RestAudio(FALSE)

\* togglePause that pauses but never resumes.
togglePause_OnlyPauses ==
    /\ kind = "session"
    /\ mounted
    /\ op' = "togglePause"
    /\ sessionState' = [sessionState EXCEPT !.isPaused = TRUE]
    /\ visited' = <<>>
    /\ UNCHANGED <<engineVars, pageVars, mounted, liveIntervals, kind, exercises, initialPrepTime, timerId, completeCalls>>
    /\ RestAudio(FALSE)

togglePause ==
    /\ kind = "session"
    /\ mounted
    /\ op' = "togglePause"
    /\ sessionState' = [sessionState EXCEPT !.isPaused = ~sessionState.isPaused]
    /\ visited' = <<>>
    /\ UNCHANGED <<engineVars, pageVars, mounted, liveIntervals, kind, exercises, initialPrepTime, timerId, completeCalls>>
    /\ RestAudio(FALSE)

\* handleFinishEarly without the check for a session already finished.
handleFinishEarly_Unguarded ==
    /\ kind = "session"
    /\ mounted
    /\ op' = "finishEarly"
    /\ completeCalls' = completeCalls + 1
    /\ sessionState' = [sessionState EXCEPT !.currentPhase = "FINISHED",
                                            !.phaseTimeLeft = 0,
                                            !.totalTimeLeft = 0,
                                            !.isPaused = TRUE]
    /\ visited' = <<>>
    /\ UNCHANGED <<engineVars, pageVars, mounted, liveIntervals, kind, exercises, initialPrepTime, timerId>>
    /\ RestAudio(TRUE)

\* handleFinishEarly leaving the total countdown as it was.
handleFinishEarly_KeepsTotal ==
    /\ kind = "session"
    /\ mounted
    /\ op' = "finishEarly"
    /\ LET prev == sessionState IN
       IF prev.currentPhase = "FINISHED"
       THEN UNCHANGED <<sessionState, completeCalls>>
       ELSE /\ completeCalls' = completeCalls + 1
            /\ sessionState' = [prev EXCEPT !.currentPhase = "FINISHED",
                                            !.phaseTimeLeft = 0,
                                            !.isPaused = TRUE]
    /\ visited' = <<>>
    /\ UNCHANGED <<engineVars, pageVars, mounted, liveIntervals, kind, exercises, initialPrepTime, timerId>>
    /\ RestAudio(TRUE)

\* handleFinishEarly finishing the session without pausing it.
handleFinishEarly_KeepsRunning ==
    /\ kind = "session"
    /\ mounted
    /\ op' = "finishEarly"
    /\ LET prev == sessionState IN
       IF prev.currentPhase = "FINISHED"
       THEN UNCHANGED <<sessionState, completeCalls>>
       ELSE /\ completeCalls' = completeCalls + 1
            /\ sessionState' = [prev EXCEPT !.currentPhase = "FINISHED",
                                            !.phaseTimeLeft = 0,
                                            !.totalTimeLeft = 0]
    /\ visited' = <<>>
    /\ UNCHANGED <<engineVars, pageVars, mounted, liveIntervals, kind, exercises, initialPrepTime, timerId>>
    /\ RestAudio(TRUE)

handleFinishEarly ==
    /\ kind = "session"
    /\ mounted
    /\ op' = "finishEarly"
    /\ LET prev == sessionState IN
       IF prev.currentPhase = "FINISHED"
       THEN UNCHANGED <<sessionState, completeCalls>>
       ELSE /\ completeCalls' = completeCalls + 1
            /\ sessionState' = [prev EXCEPT !.currentPhase = "FINISHED",
                                            !.phaseTimeLeft = 0,
                                            !.totalTimeLeft = 0,
                                            !.isPaused = TRUE]
    /\ visited' = <<>>
    /\ UNCHANGED <<engineVars, pageVars, mounted, liveIntervals, kind, exercises, initialPrepTime, timerId>>
    /\ RestAudio(TRUE)

\* skipExercise refusing a paused session only, not a finished one.
skipExercise_PausedGuardOnly ==
    /\ kind = "session"
    /\ mounted
    /\ op' = "skipItem"
    /\ LET prev == sessionState IN
       IF prev.isPaused
       THEN UNCHANGED <<sessionState, completeCalls>>
       ELSE IF prev.currentExerciseIndex < Len(validExercises) - 1
            THEN /\ sessionState' =
                      [prev EXCEPT !.currentPhase = "PREP",
                                   !.phaseTimeLeft = initialPrepTime,
                                   !.currentExerciseIndex = prev.currentExerciseIndex + 1,
                                   !.currentSet = 1,
                                   !.currentRep = 1,
                                   !.totalTimeLeft =
                                       Max(0, prev.totalTimeLeft - prev.phaseTimeLeft)]
                 /\ UNCHANGED completeCalls
            ELSE /\ sessionState' = [prev EXCEPT !.currentPhase = "FINISHED",
                                                 !.phaseTimeLeft = 0,
                                                 !.totalTimeLeft = 0]
                 /\ completeCalls' = completeCalls + 1
    /\ visited' = <<>>
    /\ UNCHANGED <<engineVars, pageVars, mounted, liveIntervals, kind, exercises, initialPrepTime, timerId>>
    /\ RestAudio(passedGuard)

\* skipExercise entering the next exercise at the set and rep it left the
\* previous one in.
skipExercise_KeepsSetAndRep ==
    /\ kind = "session"
    /\ mounted
    /\ op' = "skipItem"
    /\ LET prev == sessionState IN
       IF prev.isPaused \/ prev.currentPhase = "FINISHED"
       THEN UNCHANGED <<sessionState, completeCalls>>
       ELSE IF prev.currentExerciseIndex < Len(validExercises) - 1
            THEN /\ sessionState' =
                      [prev EXCEPT !.currentPhase = "PREP",
                                   !.phaseTimeLeft = initialPrepTime,
                                   !.currentExerciseIndex = prev.currentExerciseIndex + 1,
                                   !.totalTimeLeft =
                                       Max(0, prev.totalTimeLeft - prev.phaseTimeLeft)]
                 /\ UNCHANGED completeCalls
            ELSE /\ sessionState' = [prev EXCEPT !.currentPhase = "FINISHED",
                                                 !.phaseTimeLeft = 0,
                                                 !.totalTimeLeft = 0]
                 /\ completeCalls' = completeCalls + 1
    /\ visited' = <<>>
    /\ UNCHANGED <<engineVars, pageVars, mounted, liveIntervals, kind, exercises, initialPrepTime, timerId>>
    /\ RestAudio(passedGuard)

\* The timeToSubtract and remainingDuration computed by skipExercise are never
\* used; what it stores is the simple decrement of the last assignment.
skipExercise ==
    /\ kind = "session"
    /\ mounted
    /\ op' = "skipItem"
    /\ LET prev == sessionState IN
       IF prev.isPaused \/ prev.currentPhase = "FINISHED"
       THEN UNCHANGED <<sessionState, completeCalls>>
       ELSE LET currentPhaseRemainingTime == prev.phaseTimeLeft
            IN IF prev.currentExerciseIndex < Len(validExercises) - 1
               THEN /\ sessionState' =
                         [prev EXCEPT !.currentPhase = "PREP",
                                      !.phaseTimeLeft = initialPrepTime,
                                      !.currentExerciseIndex = prev.currentExerciseIndex + 1,
                                      !.currentSet = 1,
                                      !.currentRep = 1,
                                      !.totalTimeLeft =
                                          Max(0, prev.totalTimeLeft - currentPhaseRemainingTime)]
                    /\ UNCHANGED completeCalls
               ELSE /\ sessionState' = [prev EXCEPT !.currentPhase = "FINISHED",
                                                    !.phaseTimeLeft = 0,
                                                    !.totalTimeLeft = 0]
                    /\ completeCalls' = completeCalls + 1
    /\ visited' = <<>>
    /\ UNCHANGED <<engineVars, pageVars, mounted, liveIntervals, kind, exercises, initialPrepTime, timerId>>
    /\ RestAudio(passedGuard)

\* The updater handleNextPhase passes to setSessionState, run on a ticking
\* state as it would run on one whose phase has time left: while more than a
\* second of the phase remains it only counts down.
handleNextPhaseUpdater_WaitsForPhase(prev) ==
    IF prev.isPaused \/ prev.currentPhase = "FINISHED"
    THEN prev
    ELSE IF prev.phaseTimeLeft > 1
    THEN [prev EXCEPT !.phaseTimeLeft = prev.phaseTimeLeft - 1,
                      !.totalTimeLeft = Max(0, prev.totalTimeLeft - 1)]
    ELSE LET nextStateCore == calculateNextState(prev, validExercises, initialPrepTime)
         IN [Spread(prev, nextStateCore) EXCEPT
               !.totalTimeLeft = IF nextStateCore.currentPhase = "FINISHED" THEN 0
                                 ELSE Max(0, prev.totalTimeLeft - prev.phaseTimeLeft)]

\* The updater handleNextPhase passes to setSessionState: the state it returns
\* for the state prev it is given.
handleNextPhaseUpdater(prev) ==
    IF prev.isPaused \/ prev.currentPhase = "FINISHED"
    THEN prev
    ELSE LET timeSkipped == prev.phaseTimeLeft
             nextStateCore == calculateNextState(prev, validExercises, initialPrepTime)
         IN [Spread(prev, nextStateCore) EXCEPT
               !.totalTimeLeft = IF nextStateCore.currentPhase = "FINISHED" THEN 0
                                 ELSE Max(0, prev.totalTimeLeft - timeSkipped)]

\* handleNextPhase skipping the phase of a paused session too.
handleNextPhase_IgnoresPause ==
    /\ kind = "session"
    /\ mounted
    /\ op' = "skipPhase"
    /\ LET prev == sessionState IN
       IF prev.currentPhase = "FINISHED"
       THEN UNCHANGED <<sessionState, completeCalls>>
       ELSE LET nextStateCore == calculateNextState(prev, validExercises, initialPrepTime)
                finished == nextStateCore.currentPhase = "FINISHED"
            IN /\ completeCalls' = IF finished THEN completeCalls + 1 ELSE completeCalls
               /\ sessionState' =
                    [Spread(prev, nextStateCore) EXCEPT
                       !.totalTimeLeft = IF finished THEN 0
                                         ELSE Max(0, prev.totalTimeLeft - prev.phaseTimeLeft)]
    /\ visited' = <<>>
    /\ UNCHANGED <<engineVars, pageVars, mounted, liveIntervals, kind, exercises, initialPrepTime, timerId>>
    /\ RestAudio(passedGuard)

\* handleNextPhase taking one second off the total, as a tick does, instead of
\* the time skipped.
handleNextPhase_DeductsOne ==
    /\ kind = "session"
    /\ mounted
    /\ op' = "skipPhase"
    /\ LET prev == sessionState IN
       IF prev.isPaused \/ prev.currentPhase = "FINISHED"
       THEN UNCHANGED <<sessionState, completeCalls>>
       ELSE LET nextStateCore == calculateNextState(prev, validExercises, initialPrepTime)
                finished == nextStateCore.currentPhase = "FINISHED"
            IN /\ completeCalls' = IF finished THEN completeCalls + 1 ELSE completeCalls
               /\ sessionState' =
                    [Spread(prev, nextStateCore) EXCEPT
                       !.totalTimeLeft = IF finished THEN 0
                                         ELSE Max(0, prev.totalTimeLeft - 1)]
    /\ visited' = <<>>
    /\ UNCHANGED <<engineVars, pageVars, mounted, liveIntervals, kind, exercises, initialPrepTime, timerId>>
    /\ RestAudio(passedGuard)

handleNextPhase ==
    /\ kind = "session"
    /\ mounted
    /\ op' = "skipPhase"
    /\ LET prev == sessionState IN
       IF prev.isPaused \/ prev.currentPhase = "FINISHED"
       THEN UNCHANGED <<sessionState, completeCalls>>
       ELSE LET nextStateCore == calculateNextState(prev, validExercises, initialPrepTime)
                finished == nextStateCore.currentPhase = "FINISHED"
            IN /\ completeCalls' = IF finished /\ prev.currentPhase # "FINISHED"
                                   THEN completeCalls + 1 ELSE completeCalls
               /\ sessionState' = handleNextPhaseUpdater(prev)
    /\ visited' = <<>>
    /\ UNCHANGED <<engineVars, pageVars, mounted, liveIntervals, kind, exercises, initialPrepTime, timerId>>
    /\ RestAudio(passedGuard)

\* ---- GuidedWarmup.tsx ----
WarmupIsValid(wu) == wu.Sets > 0 /\ wu.Reps > 0 /\ wu.Duration_s > 0

RECURSIVE SumWarmupDuration(_, _, _)
SumWarmupDuration(wus, prep, index) ==
    IF index > Len(wus) THEN 0
    ELSE LET wu == wus[index]
             timePerSet == wu.Reps * wu.Duration_s + Max(0, wu.Reps - 1) * wu.Rest_s
             own == IF WarmupIsValid(wu)
                    THEN wu.Sets * timePerSet
                         + (IF wu.Sets > 1 THEN (wu.Sets - 1) * wu.RestBetweenSets_s ELSE 0)
                         + (IF index - 1 < Len(wus) - 1 /\ prep > 0 THEN prep ELSE 0)
                    ELSE 0
         IN own + SumWarmupDuration(wus, prep, index + 1)

calculateTotalWarmupDuration(wus, prep) ==
    IF Len(wus) = 0 THEN 0
    ELSE Max(0, (IF prep > 0 THEN prep ELSE 0) + SumWarmupDuration(wus, prep, 1))

calculateNextWarmupState(currentState, valid, prep) ==
    LET hasWarmup == IsDefined(valid, currentState.currentWarmupIndex)
        warmup == At(valid, currentState.currentWarmupIndex)
        core(ph, t, i, s, r) ==
            [currentWarmupIndex |-> i, currentSet |-> s, currentRep |-> r,
             currentPhase |-> ph, phaseTimeLeft |-> t]
        i0 == currentState.currentWarmupIndex
        s0 == currentState.currentSet
        r0 == currentState.currentRep
    IN IF ~hasWarmup THEN core("FINISHED", 0, i0, s0, r0)
       ELSE CASE currentState.currentPhase = "PREP" ->
                    core("WORK", warmup.Duration_s, i0, s0, r0)
              [] currentState.currentPhase = "WORK" ->
                    IF r0 < warmup.Reps
                    THEN core("REST_REP", warmup.Rest_s, i0, s0, r0 + 1)
                    ELSE IF s0 < warmup.Sets
                    THEN core("REST_SET", warmup.RestBetweenSets_s, i0, s0 + 1, 1)
                    ELSE IF i0 < Len(valid) - 1
                    THEN core("PREP", prep, i0 + 1, 1, 1)
                    ELSE core("FINISHED", 0, i0, s0, r0)
              [] currentState.currentPhase = "REST_REP" ->
                    core("WORK", warmup.Duration_s, i0, s0, r0)
              [] currentState.currentPhase = "REST_SET" ->
                    core("WORK", warmup.Duration_s, i0, s0, r0)
              [] currentState.currentPhase = "FINISHED" ->
                    core("FINISHED", 0, i0, s0, r0)

\* The warmups prop is held in the variable exercises.
validWarmups == SelectSeq(exercises, WarmupIsValid)

totalWarmupDuration == calculateTotalWarmupDuration(validWarmups, initialPrepTime)

InitialWarmupState ==
    [currentWarmupIndex |-> 0, currentSet |-> 1, currentRep |-> 1,
     currentPhase |-> IF Len(validWarmups) > 0 THEN "PREP" ELSE "FINISHED",
     phaseTimeLeft |-> IF Len(validWarmups) > 0 THEN initialPrepTime ELSE 0,
     totalTimeLeft |-> totalWarmupDuration,
     isPaused |-> FALSE]

hasCurrentWarmup == IsDefined(validWarmups, sessionState.currentWarmupIndex)

InitWarmup ==
    /\ kind = "warmup"
    /\ exercises \in SeqUpTo(Warmup, MaxLen)
    /\ initialPrepTime \in 0..MaxPrep
    /\ sessionState = InitialWarmupState
    /\ timerId = FALSE
    /\ completeCalls = 0
    /\ op = "init"
    /\ visited = <<PhaseName(sessionState.currentPhase)>>
    /\ EngineIdle
    /\ restAudioPaused = audioControlEffect(sessionState, TRUE)
    /\ mounted = TRUE
    /\ liveIntervals = 0
    /\ PageIdle

WarmupTimerEffect ==
    /\ kind = "warmup"
    /\ mounted
    /\ LET run == ~(sessionState.isPaused
                    \/ sessionState.currentPhase = "FINISHED"
                    \/ ~hasCurrentWarmup)
       IN /\ timerId # run
          /\ timerId' = run
          /\ liveIntervals' = liveIntervals - (IF timerId THEN 1 ELSE 0)
                                            + (IF run THEN 1 ELSE 0)
    /\ op' = "effect"
    /\ UNCHANGED <<engineVars, pageVars, mounted, kind, exercises, initialPrepTime, sessionState, completeCalls, visited>>
    /\ RestAudio(FALSE)

WarmupCountDown ==
    LET prev == sessionState
        newPhaseTimeLeft == prev.phaseTimeLeft - 1
        newTotalTimeLeft == Max(0, prev.totalTimeLeft - 1)
    IN IF newPhaseTimeLeft > 0
       THEN /\ sessionState' = [prev EXCEPT !.phaseTimeLeft = newPhaseTimeLeft,
                                            !.totalTimeLeft = newTotalTimeLeft]
            /\ UNCHANGED <<timerId, completeCalls>>
       ELSE LET nextStateCore ==
                    calculateNextWarmupState(prev, validWarmups, initialPrepTime)
                finished == nextStateCore.currentPhase = "FINISHED"
            IN /\ completeCalls' = IF finished /\ prev.currentPhase # "FINISHED"
                                   THEN completeCalls + 1 ELSE completeCalls
               /\ sessionState' =
                    [Spread(prev, nextStateCore) EXCEPT
                       !.totalTimeLeft = IF finished THEN 0 ELSE newTotalTimeLeft]
               /\ UNCHANGED timerId

WarmupTick ==
    /\ kind = "warmup"
    /\ timerId
    /\ op' = "tick"
    /\ IF sessionState.isPaused \/ sessionState.currentPhase = "FINISHED"
       THEN /\ timerId' = FALSE
            /\ liveIntervals' = liveIntervals - 1
            /\ UNCHANGED <<sessionState, completeCalls>>
       ELSE WarmupCountDown /\ UNCHANGED liveIntervals
    /\ visited' = Visit(sessionState, sessionState')
    /\ UNCHANGED <<engineVars, pageVars, mounted, kind, exercises, initialPrepTime>>
    /\ RestAudio(FALSE)

warmupTogglePause ==
    /\ kind = "warmup"
    /\ mounted
    /\ op' = "togglePause"
    /\ sessionState' = [sessionState EXCEPT !.isPaused = ~sessionState.isPaused]
    /\ visited' = <<>>
    /\ UNCHANGED <<engineVars, pageVars, mounted, liveIntervals, kind, exercises, initialPrepTime, timerId, completeCalls>>
    /\ RestAudio(FALSE)

warmupHandleFinishEarly ==
    /\ kind = "warmup"
    /\ mounted
    /\ op' = "finishEarly"
    /\ LET prev == sessionState IN
       IF prev.currentPhase = "FINISHED"
       THEN UNCHANGED <<sessionState, completeCalls>>
       ELSE /\ completeCalls' = completeCalls + 1
            /\ sessionState' = [prev EXCEPT !.currentPhase = "FINISHED",
                                            !.phaseTimeLeft = 0,
                                            !.totalTimeLeft = 0,
                                            !.isPaused = TRUE]
    /\ visited' = <<>>
    /\ UNCHANGED <<engineVars, pageVars, mounted, liveIntervals, kind, exercises, initialPrepTime, timerId>>
    /\ RestAudio(TRUE)

skipWarmupItem ==
    /\ kind = "warmup"
    /\ mounted
    /\ op' = "skipItem"
    /\ LET prev == sessionState IN
       IF prev.isPaused \/ prev.currentPhase = "FINISHED"
       THEN UNCHANGED <<sessionState, completeCalls>>
       ELSE LET currentPhaseRemainingTime == prev.phaseTimeLeft
            IN IF prev.currentWarmupIndex < Len(validWarmups) - 1
               THEN /\ sessionState' =
                         [prev EXCEPT !.currentPhase = "PREP",
                                      !.phaseTimeLeft = initialPrepTime,
                                      !.currentWarmupIndex = prev.currentWarmupIndex + 1,
                                      !.currentSet = 1,
                                      !.currentRep = 1,
                                      !.totalTimeLeft =
                                          Max(0, prev.totalTimeLeft - currentPhaseRemainingTime)]
                    /\ UNCHANGED completeCalls
               ELSE /\ sessionState' = [prev EXCEPT !.currentPhase = "FINISHED",
                                                    !.phaseTimeLeft = 0,
                                                    !.totalTimeLeft = 0]
                    /\ completeCalls' = completeCalls + 1
    /\ visited' = <<>>
    /\ UNCHANGED <<engineVars, pageVars, mounted, liveIntervals, kind, exercises, initialPrepTime, timerId>>
    /\ RestAudio(passedGuard)

\* The updater handleSkipPhase passes to setSessionState: the state it returns
\* for the state prev it is given.
handleSkipPhaseUpdater(prev) ==
    IF prev.isPaused \/ prev.currentPhase = "FINISHED"
    THEN prev
    ELSE LET timeSkipped == prev.phaseTimeLeft
             nextStateCore == calculateNextWarmupState(prev, validWarmups, initialPrepTime)
         IN [Spread(prev, nextStateCore) EXCEPT
               !.totalTimeLeft = IF nextStateCore.currentPhase = "FINISHED" THEN 0
                                 ELSE Max(0, prev.totalTimeLeft - timeSkipped)]

handleSkipPhase ==
    /\ kind = "warmup"
    /\ mounted
    /\ op' = "skipPhase"
    /\ LET prev == sessionState IN
       IF prev.isPaused \/ prev.currentPhase = "FINISHED"
       THEN UNCHANGED <<sessionState, completeCalls>>
       ELSE LET nextStateCore == calculateNextWarmupState(prev, validWarmups, initialPrepTime)
                finished == nextStateCore.currentPhase = "FINISHED"
            IN /\ completeCalls' = IF finished /\ prev.currentPhase # "FINISHED"
                                   THEN completeCalls + 1 ELSE completeCalls
               /\ sessionState' = handleSkipPhaseUpdater(prev)
    /\ visited' = <<>>
    /\ UNCHANGED <<engineVars, pageVars, mounted, liveIntervals, kind, exercises, initialPrepTime, timerId>>
    /\ RestAudio(passedGuard)

\* ---- GuidedWarmup.tsx as functions of its props and its state ----
\* The initial state of GuidedWarmup for the warmups and the prep time given.
warmupInitialState(warmups, prep) ==
    LET valid == SelectSeq(warmups, WarmupIsValid) IN
    [currentWarmupIndex |-> 0, currentSet |-> 1, currentRep |-> 1,
     currentPhase |-> IF Len(valid) > 0 THEN "PREP" ELSE "FINISHED",
     phaseTimeLeft |-> IF Len(valid) > 0 THEN prep ELSE 0,
     totalTimeLeft |-> calculateTotalWarmupDuration(valid, prep),
     isPaused |-> FALSE]

\* What a step of GuidedWarmup makes of the state prev: the state its updater
\* returns and the number of calls of onSessionComplete it makes.
warmupUpdater(step, prev, warmups, prep) ==
    LET valid == SelectSeq(warmups, WarmupIsValid)
        stays == [state |-> prev, calls |-> 0]
        nextStateCore == calculateNextWarmupState(prev, valid, prep)
        finished == nextStateCore.currentPhase = "FINISHED"
        calls == IF finished /\ prev.currentPhase # "FINISHED" THEN 1 ELSE 0
    IN CASE step = "tick" ->
              IF prev.isPaused \/ prev.currentPhase = "FINISHED" THEN stays
              ELSE IF prev.phaseTimeLeft - 1 > 0
              THEN [state |-> [prev EXCEPT !.phaseTimeLeft = prev.phaseTimeLeft - 1,
                                           !.totalTimeLeft = Max(0, prev.totalTimeLeft - 1)],
                    calls |-> 0]
              ELSE [state |-> [Spread(prev, nextStateCore) EXCEPT
                                 !.totalTimeLeft = IF finished THEN 0
                                                   ELSE Max(0, prev.totalTimeLeft - 1)],
                    calls |-> calls]
         [] step = "togglePause" ->
              [state |-> [prev EXCEPT !.isPaused = ~prev.isPaused], calls |-> 0]
         [] step = "finishEarly" ->
              IF prev.currentPhase = "FINISHED" THEN stays
              ELSE [state |-> [prev EXCEPT !.currentPhase = "FINISHED",
                                           !.phaseTimeLeft = 0,
                                           !.totalTimeLeft = 0,
                                           !.isPaused = TRUE],
                    calls |-> 1]
         [] step = "skipItem" ->
              IF prev.isPaused \/ prev.currentPhase = "FINISHED" THEN stays
              ELSE IF prev.currentWarmupIndex < Len(valid) - 1
              THEN [state |-> [prev EXCEPT
                                 !.currentPhase = "PREP",
                                 !.phaseTimeLeft = prep,
                                 !.currentWarmupIndex = prev.currentWarmupIndex + 1,
                                 !.currentSet = 1,
                                 !.currentRep = 1,
                                 !.totalTimeLeft =
                                     Max(0, prev.totalTimeLeft - prev.phaseTimeLeft)],
                    calls |-> 0]
              ELSE [state |-> [prev EXCEPT !.currentPhase = "FINISHED",
                                           !.phaseTimeLeft = 0,
                                           !.totalTimeLeft = 0],
                    calls |-> 1]
         [] step = "skipPhase" ->
              IF prev.isPaused \/ prev.currentPhase = "FINISHED" THEN stays
              ELSE [state |-> [Spread(prev, nextStateCore) EXCEPT
                                 !.totalTimeLeft =
                                     IF finished THEN 0
                                     ELSE Max(0, prev.totalTimeLeft - prev.phaseTimeLeft)],
                    calls |-> calls]
         [] OTHER -> stays

\* The timer effect of GuidedWarmup installs an interval in the state given.
warmupTimerRuns(state, warmups) ==
    ~(state.isPaused
      \/ state.currentPhase = "FINISHED"
      \/ ~IsDefined(SelectSeq(warmups, WarmupIsValid), state.currentWarmupIndex))

\* ---- the two components together ----
Init == InitSession \/ InitWarmup

Next ==
    \/ SessionTimerEffect
    \/ SessionTick
    \/ togglePause
    \/ handleFinishEarly
    \/ skipExercise
    \/ handleNextPhase
    \/ WarmupTimerEffect
    \/ WarmupTick
    \/ warmupTogglePause
    \/ warmupHandleFinishEarly
    \/ skipWarmupItem
    \/ handleSkipPhase

Spec == Init /\ [][Next]_vars

\* The sessions in which the user only pauses, resumes and skips phases.
NextCore ==
    \/ SessionTimerEffect
    \/ SessionTick
    \/ togglePause
    \/ handleNextPhase
    \/ WarmupTimerEffect
    \/ WarmupTick
    \/ warmupTogglePause
    \/ handleSkipPhase

SpecCore == Init /\ [][NextCore]_vars

\* The lists of the behaviours checked for progress: items of at least one
\* rep and one set, those after the first with rests as long as their work.
InitLive ==
    /\ Init
    /\ \A i \in 1..Len(exercises) : exercises[i].Reps >= 1 /\ exercises[i].Sets >= 1
    /\ \A i \in 2..Len(exercises) :
          LET it == exercises[i] IN
          /\ IF kind = "session"
             THEN /\ it.RestBetweenHangs_s = it.HangDuration_s
                  /\ it.RestBetweenSets_min = it.HangDuration_s
             ELSE /\ it.Rest_s = it.Duration_s
                  /\ it.RestBetweenSets_s = it.Duration_s

\* The browser keeps firing a live interval, and React keeps running an effect
\* whose dependencies changed.
SpecLive ==
    /\ InitLive
    /\ [][Next]_vars
    /\ WF_vars(SessionTimerEffect)
    /\ WF_vars(SessionTick)
    /\ WF_vars(WarmupTimerEffect)
    /\ WF_vars(WarmupTick)

\* ---- a guided component that its parent discards ----
\* Unmount whose cleanup leaves the interval running.
Unmount_KeepsInterval ==
    /\ kind \in {"session", "warmup"}
    /\ mounted
    /\ mounted' = FALSE
    /\ restAudioPaused' = TRUE
    /\ op' = "unmount"
    /\ visited' = <<>>
    /\ UNCHANGED <<engineVars, pageVars, kind, exercises, initialPrepTime, sessionState,
                   completeCalls, timerId, liveIntervals>>

\* The parent stops rendering the component: React runs the cleanup of the
\* timer effect, which clears the interval the effect installed, and the
\* cleanup of the audio effect, which pauses the sounds.
Unmount ==
    /\ kind \in {"session", "warmup"}
    /\ mounted
    /\ mounted' = FALSE
    /\ timerId' = FALSE
    /\ liveIntervals' = liveIntervals - (IF timerId THEN 1 ELSE 0)
    /\ restAudioPaused' = TRUE
    /\ op' = "unmount"
    /\ visited' = <<>>
    /\ UNCHANGED <<engineVars, pageVars, kind, exercises, initialPrepTime, sessionState,
                   completeCalls>>

NextClock == Next \/ Unmount

SpecClock == Init /\ [][NextClock]_vars
\* ---- seshEngine: the catalog and generate ----
\* No guided component is mounted: the state of the components in the
\* behaviours of the engine.
SessionIdle ==
    /\ kind = "engine"
    /\ exercises = <<>>
    /\ initialPrepTime = 0
    /\ sessionState = <<>>
    /\ timerId = FALSE
    /\ completeCalls = 0
    /\ visited = <<>>
    /\ restAudioPaused = TRUE
    /\ mounted = FALSE
    /\ liveIntervals = 0

\* The keys the catalogs of the model are built from, and one key of each
\* kind that no catalog holds.
ProtocolNames == <<"Short Maximal Hangs", "Classic 7:3 Repeaters">>
IntensityNames == <<"Low", "High">>
DurationValues == <<10, 15>>
UnknownProtocol == "Nonexistent Protocol"
UnknownIntensity == "low"
UnknownDuration == 5

Range(f) == {f[x] : x \in DOMAIN f}

Triples == Range(ProtocolNames) \X Range(IntensityNames) \X Range(DurationValues)

\* The triples in the order the data files list them.
TripleOrder ==
    [n \in 1..(Len(ProtocolNames) * Len(IntensityNames) * Len(DurationValues)) |->
        LET k == n - 1
            perProtocol == Len(IntensityNames) * Len(DurationValues)
        IN <<ProtocolNames[(k \div perProtocol) + 1],
             IntensityNames[((k % perProtocol) \div Len(DurationValues)) + 1],
             DurationValues[(k % Len(DurationValues)) + 1]>>]

\* The exercises a data file stores under a triple: two exercises that differ
\* in Reps, and from those of every other triple.
StoredExercises(t) ==
    LET ex(reps) == [GripType |-> t[1], EdgeType |-> "Medium Edge (20mm)",
                     HangDuration_s |-> t[3], RestBetweenHangs_s |-> 1,
                     Reps |-> reps, Sets |-> 1, RestBetweenSets_min |-> 0,
                     IntensityModifier |-> t[2]]
    IN <<ex(1), ex(2)>>

\* `${duration}`: a number as a template literal writes it.
DurationText(d) ==
    CASE d = 5 -> "5"
      [] d = 10 -> "10"
      [] d = 15 -> "15"

\* xvat.json holding the triples of M: Protocols[].IntensityLevels[name]
\* .Durations[text], where a duration without exercises is null.
XvatOf(M) ==
    LET durationsOf(pn, il) ==
            [key \in {DurationText(d) : d \in Range(DurationValues)} |->
                LET d == CHOOSE v \in Range(DurationValues) : DurationText(v) = key
                IN IF <<pn, il, d>> \in M
                   THEN [isNull |-> FALSE, Exercises |-> StoredExercises(<<pn, il, d>>)]
                   ELSE [isNull |-> TRUE, Exercises |-> <<>>]]
        levelsOf(pn) ==
            [il \in {t[2] : t \in {u \in M : u[1] = pn}} |->
                [Durations |-> durationsOf(pn, il)]]
        protocolOf(pn) == [ProtocolName |-> pn, IntensityLevels |-> levelsOf(pn)]
        present(pn) == \E t \in M : t[1] = pn
    IN [FingerboardTrainingData |->
          [Protocols |-> [n \in 1..Len(SelectSeq(ProtocolNames, present)) |->
                             protocolOf(SelectSeq(ProtocolNames, present)[n])]]]

\* workouts.json holding the triples of M: one Workout record for each.
WorkoutsOf(M) ==
    LET kept == SelectSeq(TripleOrder, LAMBDA t : t \in M)
    IN [n \in 1..Len(kept) |->
          [Protocol |-> kept[n][1], IntensityLevel |-> kept[n][2],
           Duration |-> kept[n][3], Exercises |-> StoredExercises(kept[n])]]

Filter ==
    [protocolName : Range(ProtocolNames) \cup {UnknownProtocol},
     intensityLevel : Range(IntensityNames) \cup {UnknownIntensity},
     duration : Range(DurationValues) \cup {UnknownDuration}]

\* What a call of generate does: it returns exercises or throws an Error.
Returned(exs) == [threw |-> FALSE, message |-> "", exercises |-> exs]
Thrown(msg) == [threw |-> TRUE, message |-> msg, exercises |-> <<>>]

\* Array.prototype.find: the first element that satisfies test, in a list of
\* zero or one element.
find(list, test(_)) ==
    LET hits == SelectSeq(list, test)
    IN IF Len(hits) = 0 THEN <<>> ELSE <<hits[1]>>

\* generate taking the first duration of the intensity level that has
\* exercises, whatever duration the filter asks for.
generate_AnyDuration(f) ==
    LET protocol == find(xvatData.FingerboardTrainingData.Protocols,
                         LAMBDA p : p.ProtocolName = f.protocolName)
    IN IF protocol = <<>>
       THEN Thrown("Protocol '" \o f.protocolName \o "' not found.")
       ELSE IF f.intensityLevel \notin DOMAIN protocol[1].IntensityLevels
       THEN Thrown("Intensity level '" \o f.intensityLevel \o "' not found in protocol '"
                   \o f.protocolName \o "'.")
       ELSE LET Durations == protocol[1].IntensityLevels[f.intensityLevel].Durations
                key == CHOOSE k \in DOMAIN Durations : ~Durations[k].isNull
            IN Returned(Durations[key].Exercises)

\* generate of seshEngine.ts, over xvat.json.
generate(f) ==
    LET protocolName == f.protocolName
        intensityLevel == f.intensityLevel
        duration == f.duration
        protocol == find(xvatData.FingerboardTrainingData.Protocols,
                         LAMBDA p : p.ProtocolName = protocolName)
    IN IF protocol = <<>>
       THEN Thrown("Protocol '" \o protocolName \o "' not found.")
       ELSE IF intensityLevel \notin DOMAIN protocol[1].IntensityLevels
       THEN Thrown("Intensity level '" \o intensityLevel \o "' not found in protocol '"
                   \o protocolName \o "'.")
       ELSE LET Durations == protocol[1].IntensityLevels[intensityLevel].Durations
                key == DurationText(duration)
            IN IF key \notin DOMAIN Durations \/ Durations[key].isNull
               THEN Thrown("Duration '" \o DurationText(duration)
                           \o "' not found in intensity level '" \o intensityLevel
                           \o "' of protocol '" \o protocolName \o "'.")
               ELSE Returned(Durations[key].Exercises)

\* !value for a value that is an array: an array is an object, and no object
\* is falsy, not even the empty array.
NotArray(array) == FALSE

\* generate of the later seshEngine, over workouts.json: it filters the list
\* where it used to find in it.
generateFromWorkouts(f) ==
    LET protocolName == f.protocolName
        intensityLevel == f.intensityLevel
        duration == f.duration
        protocol == SelectSeq(workouts, LAMBDA p : p.Protocol = protocolName)
        intensity == SelectSeq(protocol, LAMBDA i : i.IntensityLevel = intensityLevel)
        durationData == SelectSeq(intensity, LAMBDA d : d.Duration = duration)
    IN IF NotArray(protocol)
       THEN Thrown("Protocol '" \o protocolName \o "' not found.")
       ELSE IF NotArray(intensity)
       THEN Thrown("Intensity level '" \o intensityLevel \o "' not found in protocol '"
                   \o protocolName \o "'.")
       ELSE IF Len(durationData) = 0
       THEN Thrown("Duration '" \o DurationText(duration)
                   \o "' not found in intensity level '" \o intensityLevel
                   \o "' of protocol '" \o protocolName \o "'.")
       ELSE Returned(durationData[1].Exercises)

\* The catalogs are loaded when the module is; both data files hold the same
\* triples.
InitLookup ==
    /\ SessionIdle
    /\ PageIdle
    /\ \E M \in SUBSET Triples :
          /\ xvatData = XvatOf(M)
          /\ workouts = WorkoutsOf(M)
    /\ warmupsJson = <<>>
    /\ filter = <<>>
    /\ generated = <<>>
    /\ selectedWarmups = <<>>
    /\ op = "init"

Generate ==
    /\ kind = "engine"
    /\ \E f \in Filter :
          /\ filter' = f
          /\ generated' = generate(f)
    /\ op' = "generate"
    /\ UNCHANGED <<kind, exercises, initialPrepTime, sessionState, timerId, completeCalls,
                   visited, xvatData, workouts, warmupsJson, selectedWarmups,
                   restAudioPaused, mounted, liveIntervals, pageVars>>

GenerateFromWorkouts ==
    /\ kind = "engine"
    /\ \E f \in Filter :
          /\ filter' = f
          /\ generated' = generateFromWorkouts(f)
    /\ op' = "generateFromWorkouts"
    /\ UNCHANGED <<kind, exercises, initialPrepTime, sessionState, timerId, completeCalls,
                   visited, xvatData, workouts, warmupsJson, selectedWarmups,
                   restAudioPaused, mounted, liveIntervals, pageVars>>

NextLookup == Generate \/ GenerateFromWorkouts

SpecLookup == InitLookup /\ [][NextLookup]_vars

\* ---- seshEngine: generateWarmups ----
\* The tags generateWarmups looks for.
FingerTargets == {"finger", "finger_joints", "wrist", "grip_strength"}
ScapulaTargets == {"scapula", "upper_back", "neck", "rotator_cuff"}

\* The Target lists of the pools of the model: a finger warm-up, a scapula
\* warm-up, one that is both, and one that is neither.
TargetLists == {<<"finger">>, <<"neck">>, <<"wrist", "scapula">>, <<"core">>}

\* The times of the pools of the model are whole minutes, as the budget is.
SecondsPerMinute == 60
PoolSeconds == {k * SecondsPerMinute : k \in 0..MaxDur}

PoolWarmup ==
    [Duration_s : PoolSeconds, Rest_s : PoolSeconds,
     Reps : 0..MaxReps, Sets : 0..MaxSets, RestBetweenSets_s : PoolSeconds,
     Target : TargetLists]

\* The session durations of the model: one below, one inside and one above the
\* range in which a fifth of the duration is the budget.  All are multiples of
\* 5, as those of Filter are, so that duration * 0.2 is a whole number.
SessionDurations == {5, 15, 60}

SelectFilter ==
    [protocolName : {ProtocolNames[1]}, intensityLevel : {IntensityNames[1]},
     duration : SessionDurations]

Min(a, b) == IF a < b THEN a ELSE b

\* Math.min(Math.max(duration * 0.2, 2), 10) * 60
targetWarmupDuration(duration) == Min(Max(duration \div 5, 2), 10) * SecondsPerMinute

calculateWarmupDuration(warmup) ==
    LET oneRepDuration == warmup.Duration_s + warmup.Rest_s
        setDuration == oneRepDuration * warmup.Reps + warmup.RestBetweenSets_s
    IN setDuration * warmup.Sets

\* Array.prototype.some over a Target list.
some(list, test(_)) == \E n \in 1..Len(list) : test(list[n])

\* The warm-ups of the pool are told apart as objects: a warm-up is named by
\* its index in warmupsJson.
PoolIndices == [n \in 1..Len(warmupsJson) |-> n]

requiredFingerWarmups ==
    SelectSeq(PoolIndices,
              LAMBDA w : some(warmupsJson[w].Target, LAMBDA t : t \in FingerTargets))

requiredScapulaWarmups ==
    SelectSeq(PoolIndices,
              LAMBDA w : some(warmupsJson[w].Target, LAMBDA t : t \in ScapulaTargets))

optionalWarmups ==
    SelectSeq(PoolIndices,
              LAMBDA w : /\ w \notin Range(requiredFingerWarmups)
                         /\ w \notin Range(requiredScapulaWarmups))

\* shuffleArray: any order of the list may come out.
shuffleArray(array) ==
    {sh \in [1..Len(array) -> Range(array)] : Range(sh) = Range(array)}

\* The loop over a required category taking its first warm-up whether it fits
\* or not.
takeFirstThatFits_TakesFirst(shuffled, n, acc, target) ==
    IF n > Len(shuffled) THEN acc
    ELSE [selectedWarmups |-> Append(acc.selectedWarmups, shuffled[n]),
          accumulatedDuration |-> acc.accumulatedDuration
                                  + calculateWarmupDuration(warmupsJson[shuffled[n]])]

\* The loop over a required category: the selection and the accumulated
\* duration after it, from those before it.  It takes the first warm-up that
\* fits and stops.
RECURSIVE takeFirstThatFits(_, _, _, _)
takeFirstThatFits(shuffled, n, acc, target) ==
    IF n > Len(shuffled) THEN acc
    ELSE LET warmupDuration == calculateWarmupDuration(warmupsJson[shuffled[n]])
         IN IF acc.accumulatedDuration + warmupDuration <= target
            THEN [selectedWarmups |-> Append(acc.selectedWarmups, shuffled[n]),
                  accumulatedDuration |-> acc.accumulatedDuration + warmupDuration]
            ELSE takeFirstThatFits(shuffled, n + 1, acc, target)

\* The loop over the optional warm-ups: it takes every warm-up that fits and
\* stops once the target is reached.
RECURSIVE fillWithOptional(_, _, _, _)
fillWithOptional(shuffled, n, acc, target) ==
    IF n > Len(shuffled) THEN acc
    ELSE LET warmupDuration == calculateWarmupDuration(warmupsJson[shuffled[n]])
             next == IF acc.accumulatedDuration + warmupDuration <= target
                     THEN [selectedWarmups |-> Append(acc.selectedWarmups, shuffled[n]),
                           accumulatedDuration |-> acc.accumulatedDuration + warmupDuration]
                     ELSE acc
         IN IF next.accumulatedDuration >= target THEN next
            ELSE fillWithOptional(shuffled, n + 1, next, target)

generateWarmups(f, shuffledFingerWarmups, shuffledScapulaWarmups, shuffledOptionalWarmups) ==
    LET target == targetWarmupDuration(f.duration)
        start == [selectedWarmups |-> <<>>, accumulatedDuration |-> 0]
        afterFinger == takeFirstThatFits(shuffledFingerWarmups, 1, start, target)
        afterScapula == takeFirstThatFits(shuffledScapulaWarmups, 1, afterFinger, target)
    IN fillWithOptional(shuffledOptionalWarmups, 1, afterScapula, target).selectedWarmups

InitSelect ==
    /\ SessionIdle
    /\ PageIdle
    /\ xvatData = <<>>
    /\ workouts = <<>>
    /\ warmupsJson \in SeqUpTo(PoolWarmup, MaxPool)
    /\ filter = <<>>
    /\ generated = <<>>
    /\ selectedWarmups = <<>>
    /\ op = "init"

GenerateWarmups ==
    /\ kind = "engine"
    /\ \E f \in SelectFilter :
       \E shuffledFingerWarmups \in shuffleArray(requiredFingerWarmups) :
       \E shuffledScapulaWarmups \in shuffleArray(requiredScapulaWarmups) :
       \E shuffledOptionalWarmups \in shuffleArray(optionalWarmups) :
          /\ filter' = f
          /\ selectedWarmups' =
                generateWarmups(f, shuffledFingerWarmups, shuffledScapulaWarmups,
                                shuffledOptionalWarmups)
    /\ op' = "generateWarmups"
    /\ UNCHANGED <<kind, exercises, initialPrepTime, sessionState, timerId, completeCalls,
                   visited, xvatData, workouts, warmupsJson, generated,
                   restAudioPaused, mounted, liveIntervals, pageVars>>

NextSelect == GenerateWarmups

SpecSelect == InitSelect /\ [][NextSelect]_vars

\* ---- page.tsx: from START to the guided screens ----
MaxStarts == 2

\* null, and a value that is not null.
Null == [isNull |-> TRUE, value |-> <<>>]

Some(v) == [isNull |-> FALSE, value |-> v]

\* The catalogs and the pools of the behaviours of the page.
PageCatalogs == {M \in SUBSET Triples : Cardinality(M) <= 1}

PagePools ==
    {<<>>,
     <<[Target |-> <<"finger">>, Duration_s |-> SecondsPerMinute, Rest_s |-> 0,
        Reps |-> 1, Sets |-> 1, RestBetweenSets_s |-> 0]>>}

\* What Page renders.
Screen ==
    IF page.showExerciseList /\ ~page.session.isNull THEN "list"
    ELSE IF ~page.warmupComplete /\ ~page.warmups.isNull THEN "warmup"
    ELSE IF ~page.session.isNull THEN "session"
    ELSE "main"

\* The list the guided component on the screen was given has an item it runs.
childHasItem ==
    \/ /\ Screen = "warmup"
       /\ \E n \in 1..Len(page.warmups.value) :
             WarmupIsValid(warmupsJson[page.warmups.value[n]])
    \/ /\ Screen = "session"
       /\ \E n \in 1..Len(page.session.value) :
             page.session.value[n].Sets > 0 /\ page.session.value[n].Reps > 0
             /\ page.session.value[n].HangDuration_s > 0

InitPage ==
    /\ kind = "page"
    /\ exercises = <<>>
    /\ initialPrepTime = 0
    /\ sessionState = <<>>
    /\ timerId = FALSE
    /\ completeCalls = 0
    /\ visited = <<>>
    /\ restAudioPaused = TRUE
    /\ mounted = FALSE
    /\ liveIntervals = 0
    /\ \E M \in PageCatalogs :
          /\ xvatData = XvatOf(M)
          /\ workouts = WorkoutsOf(M)
    /\ warmupsJson \in PagePools
    /\ filter = <<>>
    /\ generated = <<>>
    /\ selectedWarmups = <<>>
    /\ page = [session |-> Null, warmups |-> Null, warmupComplete |-> FALSE,
               showExerciseList |-> FALSE]
    /\ flow = [starts |-> 0, failed |-> FALSE, warmedUp |-> 0]
    /\ op = "init"

pageFrame ==
    UNCHANGED <<kind, exercises, initialPrepTime, sessionState, timerId, completeCalls,
                visited, restAudioPaused, mounted, liveIntervals,
                xvatData, workouts, warmupsJson>>

\* The START button of the main page: startSession with the filters the user
\* chose.  setWarmups is called before generate, so the warm-ups stay set when
\* generate throws and the catch block takes over.
startSession ==
    /\ kind = "page"
    /\ Screen = "main"
    /\ flow.starts < MaxStarts
    /\ \E f \in Filter :
       \E shuffledFingerWarmups \in shuffleArray(requiredFingerWarmups) :
       \E shuffledScapulaWarmups \in shuffleArray(requiredScapulaWarmups) :
       \E shuffledOptionalWarmups \in shuffleArray(optionalWarmups) :
          LET generatedWarmups ==
                  generateWarmups(f, shuffledFingerWarmups, shuffledScapulaWarmups,
                                  shuffledOptionalWarmups)
              generatedSession == generateFromWorkouts(f)
          IN /\ filter' = f
             /\ selectedWarmups' = generatedWarmups
             /\ generated' = generatedSession
             /\ page' = IF generatedSession.threw
                        THEN [page EXCEPT !.warmups = Some(generatedWarmups)]
                        ELSE [page EXCEPT !.warmups = Some(generatedWarmups),
                                          !.session = Some(generatedSession.exercises),
                                          !.showExerciseList = TRUE]
             /\ flow' = [flow EXCEPT !.starts = flow.starts + 1,
                                     !.failed = generatedSession.threw]
    /\ op' = "start"
    /\ pageFrame

\* onStart and onBack of the exercise list: both hide the list.
closeExerciseList ==
    /\ kind = "page"
    /\ Screen = "list"
    /\ page' = [page EXCEPT !.showExerciseList = FALSE]
    /\ op' = "closeList"
    /\ UNCHANGED <<flow, filter, generated, selectedWarmups>>
    /\ pageFrame

\* The interval of the guided component on the screen fires: the component
\* installs it when its list has a valid item.
guidedTick ==
    /\ kind = "page"
    /\ childHasItem
    /\ op' = "tick"
    /\ UNCHANGED <<page, flow, filter, generated, selectedWarmups>>
    /\ pageFrame

\* GuidedWarmup calls onSessionComplete.
warmupCompleted ==
    /\ kind = "page"
    /\ Screen = "warmup"
    /\ page' = [page EXCEPT !.warmupComplete = TRUE]
    /\ flow' = [flow EXCEPT !.warmedUp = flow.starts]
    /\ op' = "warmupComplete"
    /\ UNCHANGED <<filter, generated, selectedWarmups>>
    /\ pageFrame

\* GuidedSession calls onSessionComplete.
sessionCompleted ==
    /\ kind = "page"
    /\ Screen = "session"
    /\ page' = [page EXCEPT !.session = Null]
    /\ op' = "sessionComplete"
    /\ UNCHANGED <<flow, filter, generated, selectedWarmups>>
    /\ pageFrame

NextPage ==
    \/ startSession
    \/ closeExerciseList
    \/ guidedTick
    \/ warmupCompleted
    \/ sessionCompleted

SpecPage == InitPage /\ [][NextPage]_vars

\* ---- the session in the terms of the specification ----
itemIndex ==
    IF kind = "session" THEN sessionState.currentExerciseIndex
    ELSE sessionState.currentWarmupIndex

set == sessionState.currentSet

rep == sessionState.currentRep

phase == PhaseName(sessionState.currentPhase)

phaseSecondsLeft == sessionState.phaseTimeLeft

totalSecondsLeft == sessionState.totalTimeLeft

paused == sessionState.isPaused

workDuration(it) == IF kind = "session" THEN it.HangDuration_s ELSE it.Duration_s

restBetweenReps(it) == IF kind = "session" THEN it.RestBetweenHangs_s ELSE it.Rest_s

restBetweenSets(it) == IF kind = "session" THEN it.RestBetweenSets_min ELSE it.RestBetweenSets_s

\* Validity of an item as section 3 of the specification states it.
ItemIsValid(it) == ~(it.Reps = 0 \/ it.Sets = 0 \/ workDuration(it) = 0)

items == SelectSeq(exercises, ItemIsValid)

itemCount == Len(items)

prepSeconds == initialPrepTime

\* The core of the state: what the transition table of section 4.4 determines.
Core == <<phase, itemIndex, set, rep, phaseSecondsLeft>>

\* Section 4.3: the estimate of a list of items.
itemDuration(it) ==
    it.Sets * (it.Reps * workDuration(it) + Max(0, it.Reps - 1) * restBetweenReps(it))
    + (IF it.Sets > 1 THEN (it.Sets - 1) * restBetweenSets(it) ELSE 0)

RECURSIVE SumItems(_, _)
SumItems(its, n) == IF n = 0 THEN 0 ELSE itemDuration(its[n]) + SumItems(its, n - 1)

estimateTotal(its, prep) ==
    LET valid == SelectSeq(its, ItemIsValid)
        p == IF prep > 0 THEN prep ELSE 0
    IN IF Len(valid) = 0 THEN 0
       ELSE p + SumItems(valid, Len(valid)) + (Len(valid) - 1) * p

C2_FinishedAbsorbing ==
    [][phase = "FINISHED" =>
         /\ Core' = Core
         /\ totalSecondsLeft' = totalSecondsLeft]_vars

\* togglePause was called on a finished session and resumed it.
C2_Witness ==
    /\ phase = "FINISHED"
    /\ op = "togglePause"
    /\ ~paused
    /\ itemCount = MaxLen
    /\ itemIndex = 0

\* ---- C3 ----
\* The phases a session of the given items passes through when only the clock
\* drives it.
RECURSIVE RepPhases(_)
RepPhases(n) == IF n <= 1 THEN <<"WORK">> ELSE <<"WORK", "REST_REP">> \o RepPhases(n - 1)

RECURSIVE SetPhases(_, _)
SetPhases(reps, n) ==
    IF n <= 1 THEN RepPhases(reps)
    ELSE RepPhases(reps) \o <<"REST_SET">> \o SetPhases(reps, n - 1)

RECURSIVE ExpectedPhases(_, _)
ExpectedPhases(its, i) ==
    IF i > Len(its) THEN <<"FINISHED">>
    ELSE <<"PREP">> \o SetPhases(its[i].Reps, its[i].Sets) \o ExpectedPhases(its, i + 1)

IsPrefix(a, b) == Len(a) <= Len(b) /\ SubSeq(b, 1, Len(a)) = a

\* C3: driven by ticks only, the phases entered so far are always an initial
\* part of PREP, reps WORK phases per set with REST_REP between them, REST_SET
\* between sets, for each valid item in order, then FINISHED; and they are all
\* of it once the session is finished.
C3_TickOnlyOrder ==
    (itemCount > 0 /\ visited # <<>>) =>
        /\ IsPrefix(visited, ExpectedPhases(items, 1))
        /\ phase = "FINISHED" => visited = ExpectedPhases(items, 1)
        /\ visited[Len(visited)] = phase

\* A single item with reps = 2 and sets = 1 was run to its end by the clock.
C3_Witness ==
    /\ itemCount = 1
    /\ items[1].Reps = 2
    /\ items[1].Sets = 1
    /\ visited = <<"PREP", "WORK", "REST_REP", "WORK", "FINISHED">>

\* ---- C4 ----
\* C4: in every state with phase = FINISHED, phaseSecondsLeft = 0 and
\* totalSecondsLeft = 0.
C4_FinishedZeroed ==
    phase = "FINISHED" => phaseSecondsLeft = 0 /\ totalSecondsLeft = 0

\* After a handler had been called, the last tick finished a session of two
\* items.
C4_Witness ==
    /\ phase = "FINISHED"
    /\ op = "tick"
    /\ ~paused
    /\ timerId
    /\ visited = <<>>
    /\ itemIndex = 1

\* ---- C5 ----
\* C5: a session created from a list with at least one valid item starts in
\* PREP of the first valid item with phaseSecondsLeft = prepSeconds, set = 1,
\* rep = 1, not paused, and totalSecondsLeft = estimateTotal(items, prepSeconds).
C5_InitialState ==
    (op = "init" /\ \E i \in 1..Len(exercises) : ItemIsValid(exercises[i])) =>
        /\ phase = "PREP"
        /\ phaseSecondsLeft = prepSeconds
        /\ itemIndex = 0
        /\ items[itemIndex + 1] =
             exercises[CHOOSE i \in 1..Len(exercises) :
                          /\ ItemIsValid(exercises[i])
                          /\ \A j \in 1..(i - 1) : ~ItemIsValid(exercises[j])]
        /\ set = 1
        /\ rep = 1
        /\ ~paused
        /\ totalSecondsLeft = estimateTotal(exercises, prepSeconds)

\* A new session whose list begins with an invalid item and has a valid one.
C5_Witness ==
    /\ op = "init"
    /\ Len(exercises) = MaxLen
    /\ ~ItemIsValid(exercises[1])
    /\ itemCount > 0
    /\ prepSeconds > 0

\* ---- C6 ----
\* C6: a session created from a list with no valid item is in FINISHED with
\* phaseSecondsLeft = 0 and totalSecondsLeft = 0 from the start, no interval is
\* ever installed for it, no tick is delivered to it and it notifies nothing.
C6_NoValidItem ==
    (\A i \in 1..Len(exercises) : ~ItemIsValid(exercises[i])) =>
        /\ phase = "FINISHED"
        /\ phaseSecondsLeft = 0
        /\ totalSecondsLeft = 0
        /\ ~timerId
        /\ op # "tick"
        /\ completeCalls = 0

\* A session of invalid items only was paused and resumed.
C6_Witness ==
    /\ Len(exercises) = MaxLen
    /\ \A i \in 1..Len(exercises) : ~ItemIsValid(exercises[i])
    /\ op = "togglePause"
    /\ ~paused
\* ---- C7 ----
\* Section 4.4: the state one transition leads to from the current one.
TableNext ==
    LET item == items[itemIndex + 1] IN
    CASE phase = "PREP" -> <<"WORK", itemIndex, set, rep, workDuration(item)>>
      [] phase = "WORK" ->
            IF rep < item.Reps
            THEN <<"REST_REP", itemIndex, set, rep + 1, restBetweenReps(item)>>
            ELSE IF set < item.Sets
            THEN <<"REST_SET", itemIndex, set + 1, 1, restBetweenSets(item)>>
            ELSE IF itemIndex + 1 < itemCount
            THEN <<"PREP", itemIndex + 1, 1, 1, prepSeconds>>
            ELSE <<"FINISHED", itemIndex, set, rep, 0>>
      [] phase = "REST_REP" -> <<"WORK", itemIndex, set, rep, workDuration(item)>>
      [] phase = "REST_SET" -> <<"WORK", itemIndex, set, rep, workDuration(item)>>
      [] phase = "FINISHED" -> Core

\* A tick is delivered to a session that is neither paused nor finished.
LiveTick == op' = "tick" /\ ~paused /\ phase # "FINISHED"

\* What a live tick does to the state apart from totalSecondsLeft.
TickMovesOnce ==
    /\ paused' = paused
    /\ IF phaseSecondsLeft - 1 > 0
       THEN Core' = <<phase, itemIndex, set, rep, phaseSecondsLeft - 1>>
       ELSE Core' = TableNext

\* C7 as claimed: every live tick lowers totalSecondsLeft by 1 (floor 0) and
\* either only lowers phaseSecondsLeft by 1 or performs exactly one transition.
C7_TickLowersTotalByOne ==
    [][LiveTick =>
         /\ totalSecondsLeft' = Max(0, totalSecondsLeft - 1)
         /\ TickMovesOnce]_vars

\* C7: every live tick either only lowers phaseSecondsLeft by 1 or performs
\* exactly one transition, and sets totalSecondsLeft to 0 when that transition
\* lands on FINISHED and lowers it by 1 (floor 0) otherwise.
C7_TickAtomic ==
    [][LiveTick =>
         /\ totalSecondsLeft' = IF phase' = "FINISHED" THEN 0
                                ELSE Max(0, totalSecondsLeft - 1)
         /\ TickMovesOnce]_vars

\* After a handler had been called, a tick finished a session of two items
\* whose first has the most reps and sets.
C7_Witness ==
    /\ op = "tick"
    /\ phase = "FINISHED"
    /\ ~paused
    /\ timerId
    /\ visited = <<>>
    /\ itemIndex = 1
    /\ items[1].Reps = MaxReps
    /\ items[1].Sets = MaxSets

\* ---- C8 ----
\* A step that ends the current phase: a live tick on the last second of the
\* phase, or skipPhase on a session that is neither paused nor finished.
PhaseEnds ==
    \/ LiveTick /\ phaseSecondsLeft - 1 <= 0
    \/ op' = "skipPhase" /\ ~paused /\ phase # "FINISHED"

\* C8: when WORK ends, REST_REP with rep + 1 if rep < reps; else REST_SET with
\* set + 1 and rep = 1 if set < sets; else PREP of the next item if there is
\* one; else FINISHED.  PREP, REST_REP and REST_SET end in WORK of the same
\* item, set and rep.
C8_TransitionPriority ==
    [][PhaseEnds =>
         LET item == items[itemIndex + 1]
             moreReps == rep < item.Reps
             moreSets == set < item.Sets
             moreItems == itemIndex < itemCount - 1
         IN /\ (phase = "WORK" /\ moreReps) =>
                  /\ phase' = "REST_REP"
                  /\ phaseSecondsLeft' = restBetweenReps(item)
                  /\ rep' = rep + 1
                  /\ set' = set
                  /\ itemIndex' = itemIndex
            /\ (phase = "WORK" /\ ~moreReps /\ moreSets) =>
                  /\ phase' = "REST_SET"
                  /\ phaseSecondsLeft' = restBetweenSets(item)
                  /\ set' = set + 1
                  /\ rep' = 1
                  /\ itemIndex' = itemIndex
            /\ (phase = "WORK" /\ ~moreReps /\ ~moreSets /\ moreItems) =>
                  /\ phase' = "PREP"
                  /\ phaseSecondsLeft' = prepSeconds
                  /\ itemIndex' = itemIndex + 1
                  /\ set' = 1
                  /\ rep' = 1
            /\ (phase = "WORK" /\ ~moreReps /\ ~moreSets /\ ~moreItems) =>
                  /\ phase' = "FINISHED"
                  /\ phaseSecondsLeft' = 0
            /\ phase \in {"PREP", "REST_REP", "REST_SET"} =>
                  /\ phase' = "WORK"
                  /\ phaseSecondsLeft' = workDuration(item)
                  /\ itemIndex' = itemIndex
                  /\ set' = set
                  /\ rep' = rep]_vars

\* The first rep of a set ended while both more reps and more sets remained.
C8_Witness ==
    /\ op \in {"tick", "skipPhase"}
    /\ phase = "REST_REP"
    /\ rep = MaxReps
    /\ set = 1
    /\ items[itemIndex + 1].Sets = MaxSets

\* ---- C9 ----
\* C9: a tick delivered while paused = true or phase = FINISHED leaves the
\* whole SessionState unchanged and calls onSessionComplete not at all.
C9_NoTickWhilePausedOrFinished ==
    [][(op' = "tick" /\ (paused \/ phase = "FINISHED")) =>
         /\ sessionState' = sessionState
         /\ completeCalls' = completeCalls]_vars

\* A tick scheduled before togglePause was delivered to the paused session.
C9_Witness ==
    /\ op = "tick"
    /\ paused
    /\ phase = "WORK"
    /\ ~timerId

\* ---- C10 ----
\* C10: in every state that is not FINISHED, togglePause flips paused, leaves
\* phase, itemIndex, set, rep, phaseSecondsLeft and totalSecondsLeft unchanged
\* and calls onSessionComplete not at all.
C10_TogglePauseFrame ==
    [][(op' = "togglePause" /\ phase # "FINISHED") =>
         /\ paused' = ~paused
         /\ Core' = Core
         /\ totalSecondsLeft' = totalSecondsLeft
         /\ completeCalls' = completeCalls]_vars

\* togglePause resumed a paused session in the middle of a rest.
C10_Witness ==
    /\ op = "togglePause"
    /\ ~paused
    /\ phase = "REST_SET"
    /\ ~timerId
\* ---- C11 ----
\* One of the four commands is called.
Commands == {"togglePause", "skipPhase", "skipItem", "finishEarly"}

\* C11: when phase = FINISHED, each of togglePause, skipPhase, skipItem and
\* finishEarly leaves the whole SessionState, paused included, unchanged and
\* calls onSessionComplete not at all.
C11_FinishedCommandsNoOp ==
    [][(op' \in Commands /\ phase = "FINISHED") =>
         /\ sessionState' = sessionState
         /\ completeCalls' = completeCalls]_vars

\* ---- C12 ----
\* C12: when paused = true and phase is not FINISHED, skipPhase and skipItem
\* leave the whole SessionState unchanged and call onSessionComplete not at
\* all, finishEarly still forces FINISHED, and togglePause still flips paused.
C12_PausedCommands ==
    [][(paused /\ phase # "FINISHED") =>
         /\ op' \in {"skipPhase", "skipItem"} =>
               /\ sessionState' = sessionState
               /\ completeCalls' = completeCalls
         /\ op' = "finishEarly" =>
               /\ phase' = "FINISHED"
               /\ completeCalls' = completeCalls + 1
         /\ op' = "togglePause" => ~paused']_vars

\* skipItem was called on a paused session in the middle of its first item,
\* which has a next item to skip to.
C12_Witness ==
    /\ op = "skipItem"
    /\ paused
    /\ phase = "WORK"
    /\ itemIndex = 0
    /\ itemCount = MaxLen

\* ---- C13 ----
\* C13: skipPhase on a session that is neither paused nor finished performs
\* exactly one transition of the table, sets totalSecondsLeft to
\* max(0, t - p), or to 0 when the transition lands on FINISHED, and calls
\* onSessionComplete exactly when it lands on FINISHED.
C13_SkipPhase ==
    [][(op' = "skipPhase" /\ ~paused /\ phase # "FINISHED") =>
         /\ Core' = TableNext
         /\ paused' = paused
         /\ totalSecondsLeft' =
               IF phase' = "FINISHED" THEN 0
               ELSE Max(0, totalSecondsLeft - phaseSecondsLeft)
         /\ completeCalls' =
               completeCalls + (IF phase' = "FINISHED" THEN 1 ELSE 0)]_vars

\* skipPhase ended the last rep of a set of a running session and entered
\* REST_SET.
C13_Witness ==
    /\ op = "skipPhase"
    /\ ~paused
    /\ phase = "REST_SET"
    /\ totalSecondsLeft > 0
\* ---- C14 ----
\* The state the skip-phase updater of the mounted component returns for st.
skipPhaseResult(st) ==
    IF kind = "session" THEN handleNextPhaseUpdater(st) ELSE handleSkipPhaseUpdater(st)

\* phase, itemIndex, set, rep and phaseSecondsLeft of the state st.
CoreOf(st) ==
    <<PhaseName(st.currentPhase),
      IF kind = "session" THEN st.currentExerciseIndex ELSE st.currentWarmupIndex,
      st.currentSet, st.currentRep, st.phaseTimeLeft>>

\* The values phaseSecondsLeft and totalSecondsLeft are varied over.
ElapsedPhase == 0..Max(MaxDur, MaxPrep)
ElapsedTotal == 0..MaxDur

\* C14: skipPhase does not depend on elapsed time. From a state that is
\* neither paused nor finished, and from every state that differs from it in
\* phaseSecondsLeft and totalSecondsLeft only, skipPhase yields the same phase,
\* itemIndex, set, rep and phaseSecondsLeft, those of the table, and the
\* resulting phase differs from the phase before.
C14_SkipPhaseIgnoresElapsed ==
    (~paused /\ phase # "FINISHED") =>
        /\ CoreOf(skipPhaseResult(sessionState)) = TableNext
        /\ TableNext[1] # phase
        /\ \A p2 \in ElapsedPhase, t2 \in ElapsedTotal :
              CoreOf(skipPhaseResult([sessionState EXCEPT !.phaseTimeLeft = p2,
                                                          !.totalTimeLeft = t2]))
                 = CoreOf(skipPhaseResult(sessionState))

\* skipPhase took a running session from the last rep of the last set of its
\* first item into PREP of the second.
C14_Witness ==
    /\ op = "skipPhase"
    /\ ~paused
    /\ phase = "PREP"
    /\ itemIndex = 1
    /\ completeCalls = 0

\* ---- C15 ----
\* C15: skipItem on a session that is neither paused nor finished, whatever
\* its phase, set and rep, moves to PREP of itemIndex + 1 with set = 1,
\* rep = 1 and phaseSecondsLeft = prepSeconds when another item exists, and on
\* the last item moves to FINISHED and calls onSessionComplete.
C15_SkipItem ==
    [][(op' = "skipItem" /\ ~paused /\ phase # "FINISHED") =>
         /\ paused' = paused
         /\ IF itemIndex + 1 < itemCount
            THEN /\ Core' = <<"PREP", itemIndex + 1, 1, 1, prepSeconds>>
                 /\ completeCalls' = completeCalls
            ELSE /\ phase' = "FINISHED"
                 /\ completeCalls' = completeCalls + 1]_vars

\* skipItem left the first item and entered PREP of the second, at set 1 and
\* rep 1.
C15_Witness ==
    /\ op = "skipItem"
    /\ ~paused
    /\ Core = <<"PREP", 1, 1, 1, prepSeconds>>
    /\ items[1].Sets = MaxSets
    /\ items[1].Reps = MaxReps

\* ---- C16 ----
\* C16: skipItem on a session that is neither paused nor finished lowers
\* totalSecondsLeft by at least the remaining phase time: the new
\* totalSecondsLeft is at most totalSecondsLeft - phaseSecondsLeft.
C16_SkipItemLowersTotal ==
    [][(op' = "skipItem" /\ ~paused /\ phase # "FINISHED") =>
         totalSecondsLeft' <= totalSecondsLeft - phaseSecondsLeft]_vars

C18_IndexSetRepInRange ==
    itemCount > 0 =>
        /\ 0 <= itemIndex
        /\ itemIndex < itemCount
        /\ 1 <= set
        /\ set <= items[itemIndex + 1].Sets
        /\ 1 <= rep
        /\ rep <= items[itemIndex + 1].Reps

\* A tick started the last rep of the last set of the last item.
C18_Witness ==
    /\ op = "tick"
    /\ phase = "WORK"
    /\ itemCount = MaxLen
    /\ itemIndex = MaxLen - 1
    /\ set = MaxSets
    /\ rep = MaxReps

\* ---- C19 ----
\* The list the mounted component schedules.
scheduled == IF kind = "session" THEN validExercises ELSE validWarmups

\* C19: invalid items are never scheduled. The scheduled list is the input
\* list without its invalid items, in the original order; the current item of
\* a session that is not finished is a valid one; itemIndex only stays or
\* moves to the next item; and every WORK phase is entered with
\* phaseSecondsLeft >= 1.
C19_InvalidNeverScheduled ==
    /\ [](/\ scheduled = items
          /\ phase # "FINISHED" =>
                /\ IsDefined(scheduled, itemIndex)
                /\ ItemIsValid(At(scheduled, itemIndex)))
    /\ [][/\ itemIndex' \in {itemIndex, itemIndex + 1}
          /\ (phase # "WORK" /\ phase' = "WORK") => phaseSecondsLeft' >= 1]_vars

\* A tick entered WORK in a session whose input list holds an invalid item
\* before a valid one.
C19_Witness ==
    /\ op = "tick"
    /\ phase = "WORK"
    /\ Len(exercises) = MaxLen
    /\ ~ItemIsValid(exercises[1])
    /\ ItemIsValid(exercises[MaxLen])

\* ---- C20 ----
\* The duration estimator of the mounted component applied to a list.
codeEstimate(list) ==
    IF kind = "session" THEN calculateTotalDuration(list, initialPrepTime)
    ELSE calculateTotalWarmupDuration(list, initialPrepTime)

\* C20: the estimator ignores invalid items. Its value for the input list is
\* its value for the list with the invalid items removed, and it is 0 for a
\* list with no valid item.
C20_EstimateIgnoresInvalid ==
    /\ codeEstimate(exercises) = codeEstimate(SelectSeq(exercises, ItemIsValid))
    /\ itemCount = 0 => codeEstimate(exercises) = 0
\* ---- C21 ----
\* The warm-ups generateWarmups returned.
selection == [n \in 1..Len(selectedWarmups) |-> warmupsJson[selectedWarmups[n]]]

\* C21: warm-up selection ignores invalid items: whatever the pool, the
\* sequence generateWarmups returns holds no item with reps = 0, sets = 0 or
\* workDuration = 0.
C21_SelectionIgnoresInvalid ==
    op = "generateWarmups" => \A n \in 1..Len(selection) : ItemIsValid(selection[n])

\* ---- C22 ----
\* The estimator of the mounted component for a list and a prep time.
codeEstimateWith(list, prep) ==
    IF kind = "session" THEN calculateTotalDuration(list, prep)
    ELSE calculateTotalWarmupDuration(list, prep)

\* The formula of C22 for a list of valid items.
RECURSIVE FormulaSum(_, _, _)
FormulaSum(its, prep, n) ==
    IF n > Len(its) THEN 0
    ELSE its[n].Sets * (its[n].Reps * workDuration(its[n])
                        + Max(0, its[n].Reps - 1) * restBetweenReps(its[n]))
         + (IF its[n].Sets > 1 THEN (its[n].Sets - 1) * restBetweenSets(its[n]) ELSE 0)
         + (IF n < Len(its) /\ prep > 0 THEN prep ELSE 0)
         + FormulaSum(its, prep, n + 1)

EstimateFormula(its, prep) == Max(prep, 0) + FormulaSum(its, prep, 1)

\* The prep times the estimator is tried with.
PrepValues == (0 - 1)..MaxPrep

\* The example of C22: one item of two reps of 7 s with 180 s between them
\* and a prep time of 5 s is estimated at 199 s.
EstimateExample ==
    /\ calculateTotalDuration(
          <<[HangDuration_s |-> 7, RestBetweenHangs_s |-> 180, Reps |-> 2, Sets |-> 1,
             RestBetweenSets_min |-> 0]>>, 5) = 199
    /\ calculateTotalWarmupDuration(
          <<[Duration_s |-> 7, Rest_s |-> 180, Reps |-> 2, Sets |-> 1,
             RestBetweenSets_s |-> 0]>>, 5) = 199

\* C22 as claimed: for every list of valid items and every prepSeconds the
\* estimate is max(prepSeconds, 0), plus for every item
\* sets * (reps * workDuration + max(0, reps - 1) * restBetweenReps) and
\* (sets - 1) * restBetweenSets if sets > 1, plus prepSeconds for every item
\* but the last when prepSeconds > 0; the example gives 199.
C22_EstimateFormulaAnyList ==
    op = "init" =>
        /\ \A prep \in PrepValues : codeEstimateWith(items, prep) = EstimateFormula(items, prep)
        /\ EstimateExample

\* C22: the same for every list of valid items that is not empty; the
\* estimate of the empty list is 0.
C22_EstimateFormula ==
    op = "init" =>
        /\ \A prep \in PrepValues :
              codeEstimateWith(items, prep) =
                 IF itemCount = 0 THEN 0 ELSE EstimateFormula(items, prep)
        /\ EstimateExample

\* A session was created from a list of valid items with all their sets, reps
\* and rests, and its total is the estimate of the formula.
C22_Witness ==
    /\ op = "init"
    /\ itemCount = MaxLen
    /\ prepSeconds = MaxPrep
    /\ \A n \in 1..itemCount :
          /\ items[n].Sets = MaxSets
          /\ items[n].Reps = MaxReps
          /\ restBetweenReps(items[n]) = MaxDur
          /\ restBetweenSets(items[n]) = MaxDur
    /\ totalSecondsLeft = EstimateFormula(items, prepSeconds)
\* ---- C23 ----
\* The catalog as the mapping of section 3: the triples it holds.
catalogTriples == {<<w.Protocol, w.IntensityLevel, w.Duration>> : w \in Range(workouts)}

\* The triple a filter asks for.
TripleOf(f) == <<f.protocolName, f.intensityLevel, f.duration>>

\* generate, of either seshEngine, has just been called.
Looked == op \in {"generate", "generateFromWorkouts"}

\* C23: generate with a protocol name that is not in the catalog throws an
\* error whose message is exactly Protocol '<name>' not found., whatever the
\* intensity level and the duration of the filter, and returns no exercises.
C23_UnknownProtocol ==
    (Looked /\ ~\E t \in catalogTriples : t[1] = filter.protocolName) =>
        /\ generated.threw
        /\ generated.message = "Protocol '" \o filter.protocolName \o "' not found."
        /\ generated.exercises = <<>>

\* ---- C24 ----
\* C24: generate fails at the first missing key in the order protocol,
\* intensity level, duration. With a known protocol and an unknown intensity
\* the message is Intensity level '<i>' not found in protocol '<p>'., even if
\* the duration is unknown too; with a known protocol and intensity and an
\* unknown duration it is Duration '<d>' not found in intensity level '<i>' of
\* protocol '<p>'.; in neither case are exercises returned.
C24_FirstMissingKey ==
    LET p == filter.protocolName
        i == filter.intensityLevel
        d == filter.duration
        knownProtocol == \E t \in catalogTriples : t[1] = p
        knownIntensity == \E t \in catalogTriples : t[1] = p /\ t[2] = i
    IN /\ (Looked /\ knownProtocol /\ ~knownIntensity) =>
             generated = Thrown("Intensity level '" \o i \o "' not found in protocol '"
                                \o p \o "'.")
       /\ (Looked /\ knownIntensity /\ TripleOf(filter) \notin catalogTriples) =>
             generated = Thrown("Duration '" \o DurationText(d)
                                \o "' not found in intensity level '" \o i
                                \o "' of protocol '" \o p \o "'.")

\* ---- C25 ----
\* C25: generate with a filter whose protocol, intensity level and duration
\* are all in the catalog returns exactly the exercises stored under that
\* triple, in their order; it returns exercises for no filter whose triple is
\* not, key for key, one of the catalog; and it leaves the catalog unchanged.
C25_LookupExact ==
    [][(op' \in {"generate", "generateFromWorkouts"}) =>
         /\ xvatData' = xvatData
         /\ workouts' = workouts
         /\ TripleOf(filter') \in catalogTriples =>
               generated' = Returned(StoredExercises(TripleOf(filter')))
         /\ TripleOf(filter') \notin catalogTriples => generated'.threw]_vars

\* generate of seshEngine.ts found the last triple of a catalog in which the
\* other duration of the same intensity level has no exercises.
C25_Witness ==
    /\ op = "generate"
    /\ ~generated.threw
    /\ TripleOf(filter) = TripleOrder[Len(TripleOrder)]
    /\ TripleOrder[Len(TripleOrder) - 1] \notin catalogTriples
    /\ generated.exercises = StoredExercises(TripleOrder[Len(TripleOrder)])
\* ---- C26 ----
\* Section 4.2: the budget of a session of so many minutes, in seconds.
Clamp(x, lo, hi) == IF x < lo THEN lo ELSE IF x > hi THEN hi ELSE x

targetDurationSeconds(minutes) == Clamp((minutes * 60) \div 5, 2 * 60, 10 * 60)

\* Section 4.2: the total duration of a list of items by the per-item formula.
RECURSIVE totalItemDuration(_, _)
totalItemDuration(its, n) ==
    IF n = 0 THEN 0 ELSE itemDuration(its[n]) + totalItemDuration(its, n - 1)

\* C26: whatever the pool, the shuffle and the session duration, the total
\* duration of the returned selection by the per-item formula is at most
\* targetDurationSeconds = clamp(0.2 * sessionDurationMinutes, 2, 10) * 60,
\* and so at most 600 s.
C26_SelectionWithinTarget ==
    op = "generateWarmups" =>
        /\ totalItemDuration(selection, Len(selection)) <= targetDurationSeconds(filter.duration)
        /\ totalItemDuration(selection, Len(selection)) <= 600

\* generateWarmups filled the budget of a session exactly, with as many
\* warm-ups as the pool holds.
C26_Witness ==
    /\ op = "generateWarmups"
    /\ Len(selection) = MaxPool
    /\ \A n \in 1..Len(selection) : itemDuration(selection[n]) > 0
    /\ totalItemDuration(selection, Len(selection)) = targetDurationSeconds(filter.duration)

\* ---- C27 ----
\* Section 4.2: the groups of the pool, first match wins.
HasTag(w, tags) == \E n \in 1..Len(warmupsJson[w].Target) : warmupsJson[w].Target[n] \in tags

GroupA == {w \in 1..Len(warmupsJson) : HasTag(w, FingerTargets)}
GroupB == {w \in 1..Len(warmupsJson) : HasTag(w, ScapulaTargets)} \ GroupA
GroupC == (1..Len(warmupsJson)) \ (GroupA \cup GroupB)

\* C27: if GroupA and GroupB each hold an item whose own duration is at most
\* targetDurationSeconds, the returned selection holds an item of GroupA and
\* an item of GroupB, whatever the shuffle.
C27_Coverage ==
    LET fits(w) == itemDuration(warmupsJson[w]) <= targetDurationSeconds(filter.duration)
    IN (/\ op = "generateWarmups"
        /\ \E a \in GroupA : fits(a)
        /\ \E b \in GroupB : fits(b)) =>
           /\ \E n \in 1..Len(selectedWarmups) : selectedWarmups[n] \in GroupA
           /\ \E n \in 1..Len(selectedWarmups) : selectedWarmups[n] \in GroupB

\* ---- C28 ----
\* C28: the three groups the selection draws from are pairwise disjoint, an
\* item with a GroupA tag and a GroupB tag being in the first only, and no
\* item of the pool is twice in the returned selection.
C28_GroupsDisjoint ==
    op = "generateWarmups" =>
        /\ Range(requiredFingerWarmups) = GroupA
        /\ Range(requiredScapulaWarmups) = GroupB
        /\ Range(optionalWarmups) = GroupC
        /\ \A m, n \in 1..Len(selectedWarmups) :
              selectedWarmups[m] = selectedWarmups[n] => m = n

\* ---- C29 ----
\* C29: the duration warm-up selection tests the budget with is, for every
\* item, the per-item duration of the estimator:
\* sets * (reps * workDuration + max(0, reps - 1) * restBetweenReps)
\* + max(0, sets - 1) * restBetweenSets.
C29_SharedItemDuration ==
    op = "generateWarmups" =>
        \A w \in 1..Len(warmupsJson) :
           /\ calculateWarmupDuration(warmupsJson[w]) = itemDuration(warmupsJson[w])
           /\ calculateWarmupDuration(warmupsJson[w]) =
                 IF WarmupIsValid(warmupsJson[w])
                 THEN calculateTotalWarmupDuration(<<warmupsJson[w]>>, 0)
                 ELSE itemDuration(warmupsJson[w])
\* ---- C30 ----
\* The looping rest cue is playing.
restCuePlaying == ~restAudioPaused

clockObserved ==
    LET run == ~(sessionState.isPaused
                 \/ sessionState.currentPhase = "FINISHED"
                 \/ itemIndex < 0 \/ itemIndex >= itemCount)
    IN timerId = run

\* C31: a session has at most one active repeating clock at every moment; it
\* has none while it is paused or FINISHED, once the state change was
\* observed, and none after it was discarded, so that no tick is applied
\* after teardown.
C31_OneClock ==
    /\ [](/\ liveIntervals \in {0, 1}
          /\ (mounted /\ clockObserved /\ (paused \/ phase = "FINISHED")) => liveIntervals = 0
          /\ ~mounted => liveIntervals = 0)
    /\ [][~mounted => (op' # "tick" /\ sessionState' = sessionState
                       /\ completeCalls' = completeCalls)]_vars

\* A session whose clock was running was discarded.
C31_Witness ==
    /\ op = "unmount"
    /\ ~mounted
    /\ phase \notin {"FINISHED"}
    /\ ~paused
    /\ liveIntervals = 0
\* ---- C32 ----
\* C32: if the catalog lookup for the chosen filter fails when the user
\* presses START, session creation is aborted: neither a guided warm-up nor a
\* guided workout is started, and no session clock ever ticks as a result of
\* that START.
C32_FailedStartAborts ==
    flow.failed => (Screen \notin {"warmup", "session"} /\ op # "tick")

\* ---- C40 ----
\* C40: in the application flow every guided workout session is preceded by a
\* guided warm-up for the same START press: GuidedSession is shown only after
\* a GuidedWarmup run created by that START has reported completion, also for
\* a second START after a first workout completed.
C40_WarmupBeforeSession ==
    Screen = "session" => flow.warmedUp = flow.starts
\* ---- C33 ----
\* togglePause has just resumed a session that is not finished.
Resumed == op = "togglePause" /\ ~paused /\ phase # "FINISHED"

\* C33: under weak fairness of the clock, a session that is not FINISHED and
\* in which paused is false and stays false eventually reaches FINISHED; and
\* after togglePause resumed a session that is not FINISHED a tick is
\* eventually delivered without any further command.
C33_ClockProgress ==
    /\ (<>[](~paused)) => <>(phase = "FINISHED")
    /\ Resumed ~> \/ op = "tick" /\ ~paused
                  \/ paused
                  \/ op \in {"finishEarly", "skipItem", "skipPhase"}

\* The session was resumed while the interval was cleared: the timer effect
\* has to install a new one.
C33_Witness == Resumed /\ ~timerId
\* ---- C34 ----
\* The renaming of the claim: a state and a list of GuidedSession in the
\* names of GuidedWarmup.
AsWarmupState(st) ==
    IF kind = "session"
    THEN [currentWarmupIndex |-> st.currentExerciseIndex,
          currentSet |-> st.currentSet,
          currentRep |-> st.currentRep,
          currentPhase |-> PhaseName(st.currentPhase),
          phaseTimeLeft |-> st.phaseTimeLeft,
          totalTimeLeft |-> st.totalTimeLeft,
          isPaused |-> st.isPaused]
    ELSE st

AsWarmups(list) ==
    IF kind = "session"
    THEN [n \in 1..Len(list) |->
            [Duration_s |-> list[n].HangDuration_s,
             Rest_s |-> list[n].RestBetweenHangs_s,
             RestBetweenSets_s |-> list[n].RestBetweenSets_min,
             Reps |-> list[n].Reps,
             Sets |-> list[n].Sets]]
    ELSE list

\* C34: the workout and the warm-up session machines are the same machine up
\* to renaming: for the same item list, the same prepSeconds and the same
\* sequence of ticks and commands, GuidedSession and GuidedWarmup pass
\* through the same states, with HANG as WORK and REST_HANG as REST_REP and
\* equal itemIndex, set, rep, phaseSecondsLeft, totalSecondsLeft and paused,
\* and call onSessionComplete at the same step.  Both components start in
\* the state GuidedWarmup starts in for the renamed list, every step of
\* either takes the renamed state to the state GuidedWarmup's step gives,
\* with as many notifications, and their clocks run in the same states.
C34_SameMachine ==
    /\ [](/\ op = "init" =>
               AsWarmupState(sessionState)
                 = warmupInitialState(AsWarmups(exercises), initialPrepTime)
          /\ (IF kind = "session"
              THEN ~(sessionState.isPaused \/ sessionState.currentPhase = "FINISHED"
                     \/ ~hasCurrentExercise)
              ELSE ~(sessionState.isPaused \/ sessionState.currentPhase = "FINISHED"
                     \/ ~hasCurrentWarmup))
             = warmupTimerRuns(AsWarmupState(sessionState), AsWarmups(exercises)))
    /\ [][LET r == warmupUpdater(op', AsWarmupState(sessionState), AsWarmups(exercises),
                                 initialPrepTime)
          IN /\ AsWarmupState(sessionState') = r.state
             /\ completeCalls' = completeCalls + r.calls]_vars

\* GuidedSession has skipped an item in the middle of a set.
C34_Witness ==
    /\ kind = "session"
    /\ op = "skipItem"
    /\ sessionState.currentExerciseIndex = 1
    /\ sessionState.currentPhase = "PREP"
    /\ sessionState.totalTimeLeft > 0
\* ---- C35 ----
\* C35: greedy fill is maximal: when the selection is returned, no unselected
\* GroupC item of positive duration still fits in what is left of the budget
\* (for each such item, the accumulated total plus its duration is more than
\* targetDurationSeconds), and the GroupC pass adds nothing once the
\* accumulated total has reached the target.
C35_GreedyFillMaximal ==
    LET total == totalItemDuration(selection, Len(selection))
        target == targetDurationSeconds(filter.duration)
    IN op = "generateWarmups" =>
          /\ \A w \in GroupC :
                (/\ w \notin Range(selectedWarmups)
                 /\ itemDuration(warmupsJson[w]) > 0) =>
                    total + itemDuration(warmupsJson[w]) > target
          /\ \A n \in 1..Len(selectedWarmups) :
                selectedWarmups[n] \in GroupC =>
                    totalItemDuration(selection, n - 1) # target
\* ---- C36 ----
\* prepSeconds and every phase duration that is used are at least 1.
UsedDurationsPositive ==
    /\ prepSeconds >= 1
    /\ \A n \in 1..itemCount :
          /\ workDuration(items[n]) >= 1
          /\ items[n].Reps > 1 => restBetweenReps(items[n]) >= 1
          /\ items[n].Sets > 1 => restBetweenSets(items[n]) >= 1

\* The number of ticks an unpaused session takes from the state st to
\* FINISHED.
RECURSIVE TicksToFinish(_)
TicksToFinish(st) ==
    IF st.currentPhase = "FINISHED" THEN 0
    ELSE 1 + TicksToFinish(warmupUpdater("tick", [st EXCEPT !.isPaused = FALSE],
                                         AsWarmups(exercises), initialPrepTime).state)

\* A prep phase and the whole duration of every item after the n-th.
RECURSIVE LaterItems(_)
LaterItems(n) ==
    IF n >= itemCount THEN 0
    ELSE prepSeconds + itemDuration(items[n + 1]) + LaterItems(n + 1)

\* phaseSecondsLeft plus the durations of all later phases of all remaining
\* items.
RemainingSeconds ==
    IF phase = "FINISHED" THEN 0
    ELSE LET item == items[itemIndex + 1]
             work == workDuration(item)
             oneSet == item.Reps * work + (item.Reps - 1) * restBetweenReps(item)
             laterReps == (item.Reps - rep) * (restBetweenReps(item) + work)
             laterSets == (item.Sets - set) * (restBetweenSets(item) + oneSet)
             restOfItem ==
                 CASE phase = "PREP" -> itemDuration(item)
                   [] phase = "WORK" -> laterReps + laterSets
                   [] phase = "REST_REP" -> work + laterReps + laterSets
                   [] phase = "REST_SET" -> oneSet + laterSets
         IN phaseSecondsLeft + restOfItem + LaterItems(itemIndex + 1)

\* C36: with prepSeconds >= 1 and every phase duration that is used >= 1
\* (workDuration, restBetweenReps when reps > 1, restBetweenSets when
\* sets > 1), in every state reachable by ticks, togglePause and skipPhase
\* only, totalSecondsLeft is the exact number of ticks still needed to reach
\* FINISHED, which is phaseSecondsLeft plus the durations of all later phases
\* of all remaining items; a session of ticks only lasts exactly
\* estimateTotal(items, prepSeconds) ticks.
C36_TotalIsExact ==
    UsedDurationsPositive =>
        /\ totalSecondsLeft = TicksToFinish(AsWarmupState(sessionState))
        /\ totalSecondsLeft = RemainingSeconds
        /\ op = "init" =>
              TicksToFinish(AsWarmupState(sessionState)) = estimateTotal(exercises, prepSeconds)

\* A phase was skipped into the rest between two sets of the first of two
\* items, and time is left.
C36_Witness ==
    /\ UsedDurationsPositive
    /\ op = "skipPhase"
    /\ phase = "REST_SET"
    /\ itemCount = 2
    /\ itemIndex = 0
    /\ items[1].Reps = MaxReps
    /\ totalSecondsLeft > phaseSecondsLeft
\* ---- C37 ----
\* C37: for every list of valid items, whose rests may be 0, and every
\* prepSeconds >= 0, in every reachable state that is not FINISHED
\* totalSecondsLeft >= phaseSecondsLeft: the total countdown never shows 0
\* while the current phase still has time left.
C37_TotalCoversPhase ==
    (/\ items = exercises
     /\ phase # "FINISHED") => totalSecondsLeft >= phaseSecondsLeft
\* ---- C38 ----
\* The state after n consecutive ticks from the state st, and the number of
\* notifications on the way.
RECURSIVE TicksFrom(_, _)
TicksFrom(st, n) ==
    IF n = 0 THEN [state |-> st, calls |-> 0]
    ELSE LET first == warmupUpdater("tick", st, AsWarmups(exercises), initialPrepTime)
             rest == TicksFrom(first.state, n - 1)
         IN [state |-> rest.state, calls |-> first.calls + rest.calls]

\* C38: skipPhase is the same as letting the phase run out: from every
\* unpaused state that is not FINISHED with phaseSecondsLeft = p >= 1, one
\* skipPhase gives the SessionState (phase, itemIndex, set, rep,
\* phaseSecondsLeft, totalSecondsLeft, paused) and the notification that p
\* consecutive ticks give; a tick being what the clock's callback does.
C38_SkipPhaseIsTicks ==
    [][/\ op' = "tick" =>
            LET one == TicksFrom(AsWarmupState(sessionState), 1)
            IN /\ AsWarmupState(sessionState') = one.state
               /\ completeCalls' = completeCalls + one.calls
       /\ (op' = "skipPhase" /\ ~paused /\ phase # "FINISHED" /\ phaseSecondsLeft >= 1) =>
            LET ticks == TicksFrom(AsWarmupState(sessionState), phaseSecondsLeft)
            IN /\ AsWarmupState(sessionState') = ticks.state
               /\ completeCalls' = completeCalls + ticks.calls]_vars

\* A prep phase of two seconds was skipped before its first tick.
C38_Witness ==
    /\ op = "skipPhase"
    /\ itemCount > 0
    /\ Core = <<"WORK", 0, 1, 1, workDuration(items[1])>>
    /\ prepSeconds = 2
    /\ totalSecondsLeft = estimateTotal(exercises, prepSeconds) - 2

\* ---- C39 ----
\* The triple a is before or equal to the triple b in lexicographic order.
LexLeq(a, b) ==
    \/ a[1] < b[1]
    \/ a[1] = b[1] /\ a[2] < b[2]
    \/ a[1] = b[1] /\ a[2] = b[2] /\ a[3] <= b[3]

\* C39: progress is monotonic: over any sequence of ticks and commands the
\* triple (itemIndex, set, rep) never decreases in lexicographic order,
\* itemIndex changes only by +1, and totalSecondsLeft never increases.
C39_MonotonicProgress ==
    [][/\ LexLeq(<<itemIndex, set, rep>>, <<itemIndex', set', rep'>>)
       /\ itemIndex' \in {itemIndex, itemIndex + 1}
       /\ totalSecondsLeft' <= totalSecondsLeft]_vars

\* The clock went from the last rep of the last set of the first item to the
\* prep phase of the second: the index went up by one, set and rep went back
\* to 1.
C39_Witness ==
    /\ op = "tick"
    /\ itemCount > 1
    /\ Core = <<"PREP", 1, 1, 1, prepSeconds>>
    /\ items[1].Sets = MaxSets
    /\ items[1].Reps = MaxReps

====
